---- MODULE Spec2Model ----
(***************************************************************************)
(* External merge sort of line-oriented text files (text-file-sort).       *)
(*                                                                         *)
(* Files are sequences of bytes.  A path is a pair <<dir, n>>:             *)
(*   <<"in", i>>   the i-th input file of the job,                         *)
(*   <<"tmp", n>>  the n-th file created in tmp_dir (part-*.unmerged),     *)
(*   <<"out", 0>>  the output path.                                        *)
(* The file system fs maps every existing path to its content.            *)
(*                                                                         *)
(* The worker pool is FIFO: a worker thread takes the command at the head  *)
(* of the queue and runs it to completion.  The heaps of sorted runs are   *)
(* thread local and every run file has a name of its own, so a command is  *)
(* one atomic action of the worker that runs it.                           *)
(***************************************************************************)
EXTENDS Integers, Sequences, FiniteSets, TLC

VARIABLES
    sort,           \* the Sort value the caller built (sort.rs:90-106)
    call,           \* the entry point in flight and its arguments
    fs,             \* the file system: path -> bytes
    pc,             \* position of the calling thread
    it,             \* ChunkIterator of the input being enumerated
    queue,          \* commands submitted to the pool, not yet taken
    sorted_files,   \* SORTED_FILES: worker -> heap of SortedChunkFile
    bdone,          \* workers that ran the closure of the broadcast in flight
    collected,      \* the Arc<Mutex<Vec<PathBuf>>> of collect_sorted_files
    created,        \* number of temp files created so far
    merged,         \* path returned by the last internal_merge of the caller
    nofile,         \* the soft limit RLIMIT_NOFILE of the process
    current_soft,   \* the soft limit sort() and merge() read on entry
    result,         \* <<b>> once check() returned Ok(b), <<>> before
    engine,         \* the loops of internal_merge over its heap of readers
    executed        \* the results of the commands the pool has run

vars == <<sort, call, fs, pc, it, queue, sorted_files, bdone, collected, created, merged,
          nofile, current_soft, result, engine, executed>>

---------------------------------------------------------------------------
(* Bounds of the model *)

\* total number of bytes of the input files of one job
MaxLen == 5

\* number of input files handed to the merge entry points
MaxShards == 2

\* total number of bytes of the input files of a merge entry point
MaxMergeLen == 4

---------------------------------------------------------------------------
(* Program constants *)

\* '\n', the terminator read_line splits on and the default endl
NL == 10

\* '#': the default ignore_lines pattern is ^#
Hash == 35

\* capacity of the pool's submission queue
QueueSize == 4096

\* default number of intermediate files
DefaultFiles == 1024

\* default chunk_size_bytes
DefaultChunkSize == 10000000

\* bytes the input files are made of: '\n', 'A', 'a'
InputBytes == {10, 65, 97}

\* ASCII white space, as str::trim removes it
Whitespace == {9, 10, 11, 12, 13, 32}

NoPath == <<"none", 0>>
OutPath == <<"out", 0>>
InPath(i) == <<"in", i>>
TmpPath(n) == <<"tmp", n>>

IsTmp(p) == p[1] = "tmp"

\* an output path in a directory that does not exist
NoDirPath == <<"nodir", 0>>

\* std::env::temp_dir(), the directory of the temp files
TmpDir == <<"tmp", 0>>

\* no merge is in progress
NoEngine == [phase |-> "none"]

\* the directory of the path exists
DirExists(p) == p[1] # "nodir"

---------------------------------------------------------------------------
(* Sequences of bytes *)

RECURSIVE Concat(_)
\* the bytes written when every element of ss is written in turn
Concat(ss) == IF ss = <<>> THEN <<>> ELSE Head(ss) \o Concat(Tail(ss))

\* number of bytes read_line returns from a non-empty buffer: up to and
\* including the first terminator, or everything when there is none
LineLen(buf) ==
    IF \E i \in 1..Len(buf) : buf[i] = NL
    THEN CHOOSE i \in 1..Len(buf) : buf[i] = NL /\ \A j \in 1..(i - 1) : buf[j] # NL
    ELSE Len(buf)

RECURSIVE ReadLines(_)
\* BufRead::read_line called until it returns 0
ReadLines(buf) ==
    IF buf = <<>> THEN <<>>
    ELSE <<SubSeq(buf, 1, LineLen(buf))>>
             \o ReadLines(SubSeq(buf, LineLen(buf) + 1, Len(buf)))

RECURSIVE TrimStart(_)
TrimStart(s) ==
    IF s # <<>> /\ s[1] \in Whitespace THEN TrimStart(Tail(s)) ELSE s

RECURSIVE TrimEnd(_)
TrimEnd(s) ==
    IF s # <<>> /\ s[Len(s)] \in Whitespace THEN TrimEnd(SubSeq(s, 1, Len(s) - 1)) ELSE s

\* str::trim
Trim(s) == TrimEnd(TrimStart(s))

\* writeln!(w, "{}", s)
Writeln(s) == s \o <<NL>>

\* char::to_uppercase on ASCII
ToUpper(b) == IF b \in 97..122 THEN b - 32 ELSE b

RECURSIVE StrCmp(_, _)
\* str::cmp: byte-wise lexicographic order
StrCmp(a, b) ==
    IF a = <<>> /\ b = <<>> THEN "Equal"
    ELSE IF a = <<>> THEN "Less"
    ELSE IF b = <<>> THEN "Greater"
    ELSE IF a[1] < b[1] THEN "Less"
    ELSE IF a[1] > b[1] THEN "Greater"
    ELSE StrCmp(Tail(a), Tail(b))

---------------------------------------------------------------------------
(* Keys and records.  The field list is the single whole-line String field *)
(* [index 0], with or without ignore_case.                                 *)

\* Key::new for FieldType::String
KeyNew(field, field_def) ==
    IF field_def.ignore_case THEN [i \in 1..Len(field) |-> ToUpper(field[i])] ELSE field

\* the keys of LineRecord::new(line, fields, ..) for fields = [Field(0, String)]
RecordKey(line, cfg) == KeyNew(line, cfg.field)

\* Sort::new: field_separator '\t'
Tab == 9

\* Result<T, anyhow::Error>: Ok(v), or Err(..)
Ok(v) == [ok |-> TRUE, v |-> v]
Err == [ok |-> FALSE, v |-> <<>>]

\* the f64 values of the keys checked: NaN, or a whole number
NaN == [nan |-> TRUE, v |-> 0]
Num(v) == [nan |-> FALSE, v |-> v]

\* the three variants of enum Key
StringKey(s) == [t |-> "String", s |-> s, i |-> 0, n |-> Num(0)]
IntegerKey(i) == [t |-> "Integer", s |-> <<>>, i |-> i, n |-> Num(0)]
NumberKey(n) == [t |-> "Number", s |-> <<>>, i |-> 0, n |-> n]

\* a non-empty string of ASCII digits
IsDigits(s) == s # <<>> /\ \A k \in 1..Len(s) : s[k] \in 48..57

RECURSIVE DigitsValue(_)
DigitsValue(s) ==
    IF s = <<>> THEN 0 ELSE 10 * DigitsValue(SubSeq(s, 1, Len(s) - 1)) + (s[Len(s)] - 48)

\* i64::from_str on strings of digits and letters: the strings checked are
\* too short to overflow and hold no sign
ParseI64(s) == IF IsDigits(s) THEN Ok(DigitsValue(s)) ELSE Err

\* f64::from_str on strings of digits and letters: a string of digits, or
\* "nan" in any case; the strings checked hold no sign, point or exponent
ParseF64(s) ==
    IF IsDigits(s) THEN Ok(Num(DigitsValue(s)))
    ELSE IF Len(s) = 3 /\ s[1] \in {78, 110} /\ s[2] \in {65, 97} /\ s[3] \in {78, 110}
         THEN Ok(NaN)
    ELSE Err

\* a Key::new that keeps the text of a field that does not parse as a
\* String key
KeyNewResultFallback(field, field_def) ==
    IF field_def.field_type = "String" THEN Ok(StringKey(KeyNew(field, field_def)))
    ELSE IF field_def.field_type = "Integer"
         THEN LET key == ParseI64(Trim(field)) IN
              IF key.ok THEN Ok(IntegerKey(key.v)) ELSE Ok(StringKey(field))
    ELSE LET key == ParseF64(Trim(field)) IN
         IF key.ok THEN Ok(NumberKey(key.v)) ELSE Ok(StringKey(field))

\* Key::new: the key of a field, or the parse error
KeyNewResult(field, field_def) ==
    IF field_def.field_type = "String" THEN Ok(StringKey(KeyNew(field, field_def)))
    ELSE IF field_def.field_type = "Integer"
         THEN LET key == ParseI64(Trim(field)) IN
              IF key.ok THEN Ok(IntegerKey(key.v)) ELSE Err
    ELSE LET key == ParseF64(Trim(field)) IN
         IF key.ok THEN Ok(NumberKey(key.v)) ELSE Err

\* i64::cmp, and f64::partial_cmp on two values that are not NaN
IntCmp(a, b) == IF a < b THEN "Less" ELSE IF a > b THEN "Greater" ELSE "Equal"

\* Ord for Key, on two keys of the same variant
KeyCmp(a, b) ==
    IF a.t = "String" THEN StrCmp(a.s, b.s)
    ELSE IF a.t = "Integer" THEN IntCmp(a.i, b.i)
    ELSE IF a.n.nan /\ b.n.nan THEN "Equal"
    ELSE IF ~a.n.nan /\ b.n.nan THEN "Greater"
    ELSE IF a.n.nan /\ ~b.n.nan THEN "Less"
    ELSE IntCmp(a.n.v, b.n.v)

\* PartialEq for Key, on two keys of the same variant: f64::eq is false on NaN
KeyEq(a, b) ==
    IF a.t = "String" THEN a.s = b.s
    ELSE IF a.t = "Integer" THEN a.i = b.i
    ELSE ~a.n.nan /\ ~b.n.nan /\ a.n.v = b.n.v

RECURSIVE KeysCmp(_, _)
\* Ord for Vec<Key>: the first position that differs decides, then the length
KeysCmp(ks, ls) ==
    IF ks = <<>> /\ ls = <<>> THEN "Equal"
    ELSE IF ks = <<>> THEN "Less"
    ELSE IF ls = <<>> THEN "Greater"
    ELSE IF KeyCmp(ks[1], ls[1]) # "Equal" THEN KeyCmp(ks[1], ls[1])
    ELSE KeysCmp(Tail(ks), Tail(ls))

\* PartialEq for Vec<Key>
KeysEq(ks, ls) == Len(ks) = Len(ls) /\ \A k \in 1..Len(ks) : KeyEq(ks[k], ls[k])

RECURSIVE Split(_, _)
\* str::split(field_separator): the parts between the separators
Split(line, sep) ==
    IF \E k \in 1..Len(line) : line[k] = sep
    THEN LET k == CHOOSE k \in 1..Len(line) :
                      line[k] = sep /\ \A j \in 1..(k - 1) : line[j] # sep
         IN  <<SubSeq(line, 1, k - 1)>> \o Split(SubSeq(line, k + 1, Len(line)), sep)
    ELSE <<line>>

RECURSIVE FieldKeys(_, _)
\* the loop of LineRecord::new over the fields: the keys, or the error of
\* the first field that has index 0, has no part, or does not parse
FieldKeys(fields, parts) ==
    IF fields = <<>> THEN Ok(<<>>)
    ELSE IF fields[1].index = 0 THEN Err
    ELSE IF fields[1].index > Len(parts) THEN Err
    ELSE LET key  == KeyNewResult(parts[fields[1].index], fields[1])
             rest == FieldKeys(Tail(fields), parts)
         IN  IF key.ok /\ rest.ok THEN Ok(<<key.v>> \o rest.v) ELSE Err

\* a construction that answers a key error with a record without keys
LineRecordNewLenient(line, fields, field_separator) ==
    IF Len(fields) = 1 /\ fields[1].index = 0
    THEN LET key == KeyNewResult(line, fields[1]) IN
         Ok([line |-> line, keys |-> IF key.ok THEN <<key.v>> ELSE <<>>])
    ELSE LET keys == FieldKeys(fields, Split(line, field_separator)) IN
         Ok([line |-> line, keys |-> keys.v])

\* LineRecord::new: the record, its line and its keys, or the error
LineRecordNew(line, fields, field_separator) ==
    IF Len(fields) = 1 /\ fields[1].index = 0
    THEN LET key == KeyNewResult(line, fields[1]) IN
         IF key.ok THEN Ok([line |-> line, keys |-> <<key.v>>]) ELSE Err
    ELSE LET keys == FieldKeys(fields, Split(line, field_separator)) IN
         IF keys.ok THEN Ok([line |-> line, keys |-> keys.v]) ELSE Err

\* an ordering that ignores the direction
FlipNone(ordering, order) == ordering

\* the flip of Ord for LineRecord under Order::Desc
Flip(ordering, order) ==
    IF ordering = "Less" THEN (IF order = "Asc" THEN "Less" ELSE "Greater")
    ELSE IF ordering = "Equal" THEN "Equal"
    ELSE (IF order = "Asc" THEN "Greater" ELSE "Less")

\* Ord for LineRecord, on two records built with the same fields
RecordCmp(a, b, order) == Flip(KeysCmp(a.keys, b.keys), order)

\* PartialEq for LineRecord
RecordEq(a, b) == KeysEq(a.keys, b.keys)

\* Ord for LineRecord without the flip under Order::Desc
LineRecordCmpNoFlip(a, b, cfg) == StrCmp(RecordKey(a, cfg), RecordKey(b, cfg))

\* Ord for LineRecord, on the lines of two records built with the field of
\* the configuration: the key comparison, flipped under Order::Desc
LineRecordCmp(a, b, cfg) ==
    IF cfg.field.index = 0 /\ cfg.field.field_type = "String"
    THEN LET ordering == StrCmp(RecordKey(a, cfg), RecordKey(b, cfg)) IN
         IF ordering = "Less" THEN (IF cfg.order = "Asc" THEN "Less" ELSE "Greater")
         ELSE IF ordering = "Equal" THEN "Equal"
         ELSE (IF cfg.order = "Asc" THEN "Greater" ELSE "Less")
    ELSE RecordCmp(LineRecordNew(a, <<cfg.field>>, Tab).v,
                   LineRecordNew(b, <<cfg.field>>, Tab).v, cfg.order)

\* a <= b for LineRecords
RecordLe(a, b, cfg) == LineRecordCmp(a, b, cfg) # "Greater"

\* Vec::sort step: x goes behind every element that is not greater than it
Insert(x, sorted, cfg) ==
    LET k == Cardinality({i \in 1..Len(sorted) : RecordLe(sorted[i], x, cfg)}) IN
    SubSeq(sorted, 1, k) \o <<x>> \o SubSeq(sorted, k + 1, Len(sorted))

RECURSIVE SortRecords(_, _)
\* chunk.sort(): the stable sort of a Vec<LineRecord>
SortRecords(recs, cfg) ==
    IF recs = <<>> THEN <<>>
    ELSE Insert(recs[Len(recs)], SortRecords(SubSeq(recs, 1, Len(recs) - 1), cfg), cfg)

---------------------------------------------------------------------------
(* Configuration *)

\* number of cores reported by num_cpus::get()
NumCpus == 2

\* a configuration that takes the number of intermediate files as given
CreateConfigNoFloor(s) ==
    LET tasks == IF s.tasks = 0 THEN NumCpus ELSE s.tasks
        files == s.files
    IN  [tasks            |-> tasks,
         ignore_empty     |-> s.ignore_empty,
         ignore_lines     |-> s.ignore_lines,
         concurrent_merge |-> s.concurrent_merge,
         chunk_size_bytes |-> s.chunk_size_bytes,
         files            |-> files,
         field            |-> s.field,
         order            |-> s.order,
         prefix           |-> s.prefix,
         suffix           |-> s.suffix,
         tmp              |-> s.tmp]

\* Sort::create_config: the Config every thread works from
CreateConfig(s) ==
    LET tasks == IF s.tasks = 0 THEN NumCpus ELSE s.tasks
        files == IF s.files > tasks * 2 THEN s.files ELSE tasks * 2
    IN  [tasks            |-> tasks,
         ignore_empty     |-> s.ignore_empty,
         ignore_lines     |-> s.ignore_lines,
         concurrent_merge |-> s.concurrent_merge,
         chunk_size_bytes |-> s.chunk_size_bytes,
         files            |-> files,
         field            |-> s.field,
         order            |-> s.order,
         prefix           |-> s.prefix,
         suffix           |-> s.suffix,
         tmp              |-> s.tmp]

Config == CreateConfig(sort)

\* the worker threads of the sorting pool
Workers == 1..Config.tasks

\* the soft limit RLIMIT_NOFILE get_rlimits finds when the caller never
\* changed it
PriorSoft == 1024

\* the descriptors sort() and merge() ask for beyond the run files
Headroom == 256

\* the soft limit sort() and merge() set before they work
NewSoft(cfg, soft) == IF cfg.files + Headroom > soft THEN cfg.files + Headroom ELSE soft

\* Regex::is_match for the patterns ^c, c a byte (ignore_lines.first)
RegexIsMatch(r, s) == s # <<>> /\ s[1] = r.first

\* the filters of read_records and internal_check: TRUE when the line is dropped
Ignored(line, cfg) ==
    \/ cfg.ignore_empty /\ Trim(line) = <<>>
    \/ cfg.ignore_lines.some /\ RegexIsMatch(cfg.ignore_lines, Trim(line))

---------------------------------------------------------------------------
(* Chunk enumerator *)

\* ChunkIterator::new
ChunkIteratorNew(path, fsys, jump) ==
    [path |-> path, length |-> Len(fsys[path]), reminder |-> Len(fsys[path]),
     jump |-> jump, pos |-> 0]

\* a jump that seeks and reads nothing
JumpSeekOnly(i, fsys) == i.pos + i.jump

\* ChunkIterator::jump: seek forward by jump, read up to and including the
\* next terminator (or to the end of the file), return the position reached
Jump(i, fsys) ==
    LET buf == fsys[i.path]
        p   == i.pos + i.jump
    IN  IF \E k \in (p + 1)..Len(buf) : buf[k] = NL
        THEN CHOOSE k \in (p + 1)..Len(buf) :
                 buf[k] = NL /\ \A j \in (p + 1)..(k - 1) : buf[j] # NL
        ELSE Len(buf)

\* Iterator::next for ChunkIterator: TRUE when a chunk is yielded
HasNext(i) == i.reminder # 0

\* a chunk that takes the target size, or what is left, as its length
NextChunkUncorrected(i, fsys) ==
    [offset |-> i.pos, length |-> IF i.jump >= i.reminder THEN i.reminder ELSE i.jump,
     path |-> i.path]

\* the chunk next() yields
NextChunk(i, fsys) ==
    IF i.jump >= i.reminder
    THEN [offset |-> i.pos, length |-> i.reminder, path |-> i.path]
    ELSE [offset |-> i.pos, length |-> Jump(i, fsys) - i.pos, path |-> i.path]

\* an iterator that does not clear reminder after the last chunk
AdvanceNoStop(i, fsys) ==
    IF i.jump >= i.reminder
    THEN [i EXCEPT !.pos = i.length]
    ELSE [i EXCEPT !.pos = Jump(i, fsys), !.reminder = i.length - Jump(i, fsys)]

\* the iterator after next() yielded a chunk
Advance(i, fsys) ==
    IF i.jump >= i.reminder
    THEN [i EXCEPT !.pos = i.length, !.reminder = 0]
    ELSE [i EXCEPT !.pos = Jump(i, fsys), !.reminder = i.length - Jump(i, fsys)]

---------------------------------------------------------------------------
(* Sort task *)

\* SortCommand::read_records: the lines of the chunk that pass the filters
ReadRecords(chunk, fsys, cfg) ==
    LET buff  == SubSeq(fsys[chunk.path], chunk.offset + 1, chunk.offset + chunk.length)
        lines == ReadLines(buff)
    IN  SelectSeq(lines, LAMBDA line : ~Ignored(line, cfg))

\* SortCommand::read_records returns the error of LineRecord::new
ReadRecordsFails(chunk, fsys, cfg) ==
    LET lines == ReadRecords(chunk, fsys, cfg) IN
    \E k \in 1..Len(lines) : ~LineRecordNew(lines[k], <<cfg.field>>, Tab).ok

\* the bytes write_sorted_chunk writes: every record's line, as it was read
ChunkBytes(chunk) == Concat(chunk)

\* the runs a heap without Reverse would pop: those of most lines
MaxLineRuns(heap) == {f \in heap : \A g \in heap : f.lines >= g.lines}

\* the runs BinaryHeap<Reverse<SortedChunkFile>>::pop may return: those with
\* the fewest lines
MinRuns(heap) == {f \in heap : \A g \in heap : f.lines <= g.lines}

\* the orders in which popping a heap until it is empty can yield its runs
PopOrders(heap) ==
    {s \in [1..Cardinality(heap) -> heap] :
        /\ \A i, j \in 1..Cardinality(heap) : i # j => s[i] # s[j]
        /\ \A i, j \in 1..Cardinality(heap) : i < j => s[i].lines <= s[j].lines}

\* the paths of a sequence of runs
Paths(runs) == [i \in 1..Len(runs) |-> runs[i].path]

---------------------------------------------------------------------------
(* Merge engine.  A reader (UnmergedChunkFile) is the sequence of the      *)
(* lines of its run it has not handed out yet: its head is the first of    *)
(* them, None when the sequence is empty.  BinaryHeap::pop returns a       *)
(* greatest element; which one among equal elements is not specified, so   *)
(* the merge yields a set of possible results.                             *)

\* Ord for UnmergedChunkFile without the reversal of the record order
ReaderCmpNotReversed(a, b, cfg) ==
    IF a = <<>> /\ b = <<>> THEN "Equal"
    ELSE IF a = <<>> THEN "Greater"
    ELSE IF b = <<>> THEN "Less"
    ELSE LineRecordCmp(a[1], b[1], cfg)

\* Ord for UnmergedChunkFile: reversed record order, None above Some
ReaderCmp(a, b, cfg) ==
    IF a = <<>> /\ b = <<>> THEN "Equal"
    ELSE IF a = <<>> THEN "Greater"
    ELSE IF b = <<>> THEN "Less"
    ELSE LineRecordCmp(b[1], a[1], cfg)

\* the readers BinaryHeap::pop / peek may return
MaxReaders(rs, alive, cfg) ==
    {i \in alive : \A j \in alive : ReaderCmp(rs[i], rs[j], cfg) # "Less"}

\* an inner loop that hands out every line of current_min, whatever
\* unmerged_min holds
BatchLenDrain(cur, nxt, cfg) == Len(cur)

RECURSIVE BatchLen(_, _, _)
\* the inner loop of internal_merge: the number of lines current_min hands
\* out while current_min >= unmerged_min and its head is Some
BatchLen(cur, nxt, cfg) ==
    IF ReaderCmp(cur, nxt, cfg) = "Less" THEN 0
    ELSE IF cur = <<>> THEN 0
    ELSE 1 + BatchLen(Tail(cur), nxt, cfg)

RECURSIVE MergeHeap(_, _, _)
\* the loops of internal_merge over the heap of readers: out is what is
\* written, len the lines counted, dropped the readers found exhausted
\* while others remained, last the reader drained at the end
MergeHeap(rs, alive, cfg) ==
    IF Cardinality(alive) = 1
    THEN LET i == CHOOSE i \in alive : TRUE IN
         {[out |-> Concat(rs[i]), len |-> Len(rs[i]), dropped |-> {}, last |-> i]}
    ELSE UNION {
           LET rest  == alive \ {i}
               nxt   == rs[CHOOSE j \in MaxReaders(rs, rest, cfg) : TRUE]
               k     == BatchLen(rs[i], nxt, cfg)
               left  == SubSeq(rs[i], k + 1, Len(rs[i]))
               done  == left = <<>>
               after == MergeHeap([rs EXCEPT ![i] = left],
                                  IF done THEN rest ELSE alive, cfg)
           IN  {[out     |-> Concat(SubSeq(rs[i], 1, k)) \o r.out,
                 len     |-> k + r.len,
                 dropped |-> IF done THEN r.dropped \cup {i} ELSE r.dropped,
                 last    |-> r.last] : r \in after}
           : i \in MaxReaders(rs, alive, cfg)}

\* the lines internal_merge writes before and after the records
Affix(lines, add_prefix_suffix) ==
    IF add_prefix_suffix
    THEN Concat([i \in 1..Len(lines) |-> Writeln(lines[i])])
    ELSE <<>>

\* internal_merge panics on an empty list of files: pop().unwrap() on an
\* empty heap
MergePanics(files) == Len(files) = 0

\* the files merging k >= 2 readers removes, among the paths of the call, missing the last
RemovedLastKept(files, dropped, last, remove_merged) ==
    IF remove_merged THEN {files[i] : i \in dropped} ELSE {}

\* the remove_file calls of the two loops of internal_merge: a reader found
\* exhausted while others remain is removed when remove_merged is set, the
\* last reader always
RemovedByLoops(files, dropped, last, remove_merged) ==
    (IF remove_merged THEN {files[i] : i \in dropped} ELSE {}) \cup {files[last]}

\* Sort::internal_merge on a non-empty list of files: the possible results,
\* each the content of the merged file, the line count returned and the
\* files removed
InternalMerge(files, fsys, cfg, remove_merged, add_prefix_suffix) ==
    LET pre == Affix(cfg.prefix, add_prefix_suffix)
        suf == Affix(cfg.suffix, add_prefix_suffix)
        n   == IF add_prefix_suffix THEN Len(cfg.prefix) + Len(cfg.suffix) ELSE 0
    IN  IF Len(files) = 1
        THEN {[content |-> pre \o fsys[files[1]] \o suf,
               lines   |-> n + Len(ReadLines(fsys[files[1]])),
               removed |-> {files[1]}]}
        ELSE {[content |-> pre \o r.out \o suf,
               lines   |-> n + r.len,
               removed |-> RemovedByLoops(files, r.dropped, r.last, remove_merged)]
              : r \in MergeHeap([i \in 1..Len(files) |-> ReadLines(fsys[files[i]])],
                                1..Len(files), cfg)}

\* the file system with the files of rm removed and file p written
Written(fsys, rm, p, content) ==
    [q \in ((DOMAIN fsys) \ rm) \cup {p} |-> IF q = p THEN content ELSE fsys[q]]

---------------------------------------------------------------------------
(* Actions of sort() *)

\* internal_sort's loop over the chunks of the inputs: one chunk is
\* submitted to the pool
Submit ==
    /\ pc = "submit"
    /\ HasNext(it)
    /\ Len(queue) < QueueSize
    /\ queue' = Append(queue, NextChunk(it, fs))
    /\ it' = Advance(it, fs)
    /\ UNCHANGED <<sort, call, engine, executed, nofile, current_soft, result, fs, pc, sorted_files, bdone, collected, created, merged>>

\* the iterator of one input is exhausted: on to the next input, or to the
\* broadcasts when it was the last; ChunkIterator::new(..).unwrap() panics
\* when the next input cannot be opened
NextInput ==
    /\ pc = "submit"
    /\ ~HasNext(it)
    /\ LET n == CHOOSE i \in 1..Len(sort.input_files) : sort.input_files[i] = it.path IN
       IF n < Len(sort.input_files)
       THEN IF sort.input_files[n + 1] \in DOMAIN fs
            THEN /\ it' = ChunkIteratorNew(sort.input_files[n + 1], fs, Config.chunk_size_bytes)
                 /\ pc' = pc
            ELSE /\ it' = it
                 /\ pc' = "panicked"
       ELSE /\ it' = it
            /\ pc' = IF Config.concurrent_merge THEN "merge_sorted_files"
                     ELSE "collect_sorted_files"
    /\ UNCHANGED <<sort, call, engine, executed, nofile, current_soft, result, fs, queue, sorted_files, bdone, collected, created, merged>>

\* a sort task that writes its run without ever merging two runs first
ExecuteNoPremerge(w) ==
    /\ queue # <<>>
    /\ LET chunk == SortRecords(ReadRecords(Head(queue), fs, Config), Config) IN
       /\ fs' = Written(fs, {}, TmpPath(created + 1), ChunkBytes(chunk))
       /\ sorted_files' = [sorted_files EXCEPT ![w] =
              @ \cup {[path |-> TmpPath(created + 1), lines |-> Len(chunk)]}]
       /\ created' = created + 1
    /\ queue' = Tail(queue)
    /\ executed' = Append(executed, "Ok")
    /\ UNCHANGED <<sort, call, engine, nofile, current_soft, result, pc, it, bdone, collected, merged>>

\* every command the pool has run returned Ok
NoneFailed == \A k \in 1..Len(executed) : executed[k] = "Ok"

\* SortCommand::execute on worker w, for the chunk at the head of the queue:
\* read_records()? returns the error of a line that is no record; the
\* unwrap of create_tmp_file panics when the temp directory is missing.
\* What the pool does with its other commands once a command failed is
\* decided by the pool, whose code is not part of the sources: a job is
\* followed up to its first failed command
Execute(w) ==
    /\ queue # <<>>
    /\ NoneFailed
    /\ LET cfg        == Config
           chunk      == SortRecords(ReadRecords(Head(queue), fs, cfg), cfg)
           chunk_size == Len(chunk)
           heap       == sorted_files[w]
       IN  IF ReadRecordsFails(Head(queue), fs, cfg)
           THEN /\ executed' = Append(executed, "Err")
                /\ UNCHANGED <<fs, sorted_files, created>>
           ELSE IF ~DirExists(cfg.tmp)
           THEN /\ executed' = Append(executed, "Panicked")
                /\ UNCHANGED <<fs, sorted_files, created>>
           ELSE IF Cardinality(heap) < cfg.files \div cfg.tasks
           THEN \* write_sorted_chunk
                /\ fs' = Written(fs, {}, TmpPath(created + 1), ChunkBytes(chunk))
                /\ sorted_files' = [sorted_files EXCEPT ![w] =
                       heap \cup {[path |-> TmpPath(created + 1), lines |-> chunk_size]}]
                /\ created' = created + 1
                /\ executed' = Append(executed, "Ok")
           ELSE \* the two smallest runs are merged, then write_sorted_chunk
                \E f1 \in MinRuns(heap) : \E f2 \in MinRuns(heap \ {f1}) :
                \E m \in InternalMerge(<<f1.path, f2.path>>, fs, cfg, TRUE, FALSE) :
                /\ fs' = Written(Written(fs, m.removed, TmpPath(created + 1), m.content),
                                 {}, TmpPath(created + 2), ChunkBytes(chunk))
                /\ sorted_files' = [sorted_files EXCEPT ![w] =
                       (heap \ {f1, f2})
                           \cup {[path |-> TmpPath(created + 1), lines |-> m.lines],
                                 [path |-> TmpPath(created + 2), lines |-> chunk_size]}]
                /\ created' = created + 2
                /\ executed' = Append(executed, "Ok")
    /\ queue' = Tail(queue)
    /\ UNCHANGED <<sort, call, engine, nofile, current_soft, result, pc, it, bdone, collected, merged>>

\* the pool runs a closure handed to all its threads once on every
\* worker, after the commands submitted before it
PoolDrained == queue = <<>>

\* a closure of merge_sorted_files that merges only heaps of more than two
\* runs
MergeSortedFilesOverTwo(w) ==
    /\ pc = "merge_sorted_files"
    /\ PoolDrained
    /\ NoneFailed
    /\ w \notin bdone
    /\ IF Cardinality(sorted_files[w]) > 2
       THEN \E intermediate \in PopOrders(sorted_files[w]) :
            \E m \in InternalMerge(Paths(intermediate), fs, Config, TRUE, FALSE) :
            /\ fs' = Written(fs, m.removed, TmpPath(created + 1), m.content)
            /\ sorted_files' = [sorted_files EXCEPT ![w] =
                   {[path |-> TmpPath(created + 1), lines |-> m.lines]}]
            /\ created' = created + 1
       ELSE UNCHANGED <<fs, sorted_files, created>>
    /\ IF bdone \cup {w} = Workers
       THEN pc' = "collect_sorted_files" /\ bdone' = {}
       ELSE pc' = pc /\ bdone' = bdone \cup {w}
    /\ UNCHANGED <<sort, call, engine, executed, nofile, current_soft, result, it, queue, collected, merged>>

\* the closure of merge_sorted_files on worker w: a heap of more than one
\* run is popped empty and merged into one run
MergeSortedFiles(w) ==
    /\ pc = "merge_sorted_files"
    /\ PoolDrained
    /\ NoneFailed
    /\ w \notin bdone
    /\ IF Cardinality(sorted_files[w]) > 1
       THEN \E intermediate \in PopOrders(sorted_files[w]) :
            \E m \in InternalMerge(Paths(intermediate), fs, Config, TRUE, FALSE) :
            /\ fs' = Written(fs, m.removed, TmpPath(created + 1), m.content)
            /\ sorted_files' = [sorted_files EXCEPT ![w] =
                   {[path |-> TmpPath(created + 1), lines |-> m.lines]}]
            /\ created' = created + 1
       ELSE UNCHANGED <<fs, sorted_files, created>>
    /\ IF bdone \cup {w} = Workers
       THEN pc' = "collect_sorted_files" /\ bdone' = {}
       ELSE pc' = pc /\ bdone' = bdone \cup {w}
    /\ UNCHANGED <<sort, call, engine, executed, nofile, current_soft, result, it, queue, collected, merged>>

\* a closure of collect_sorted_files that pops its heap once
CollectSortedFilesPopOne(w) ==
    /\ pc = "collect_sorted_files"
    /\ PoolDrained
    /\ NoneFailed
    /\ w \notin bdone
    /\ IF sorted_files[w] = {}
       THEN UNCHANGED <<collected, sorted_files>>
       ELSE \E f \in MinRuns(sorted_files[w]) :
            /\ collected' = Append(collected, f.path)
            /\ sorted_files' = [sorted_files EXCEPT ![w] = @ \ {f}]
    /\ IF bdone \cup {w} = Workers
       THEN pc' = "final_merge" /\ bdone' = {}
       ELSE pc' = pc /\ bdone' = bdone \cup {w}
    /\ UNCHANGED <<sort, call, engine, executed, nofile, current_soft, result, fs, it, queue, created, merged>>

\* the closure of collect_sorted_files on worker w: the heap is popped
\* empty and its paths are appended to the shared vector; after the last
\* worker the pool is shut down and joined
CollectSortedFiles(w) ==
    /\ pc = "collect_sorted_files"
    /\ PoolDrained
    /\ NoneFailed
    /\ w \notin bdone
    /\ \E intermediate \in PopOrders(sorted_files[w]) :
           collected' = collected \o Paths(intermediate)
    /\ sorted_files' = [sorted_files EXCEPT ![w] = {}]
    /\ IF bdone \cup {w} = Workers
       THEN pc' = "final_merge" /\ bdone' = {}
       ELSE pc' = pc /\ bdone' = bdone \cup {w}
    /\ UNCHANGED <<sort, call, engine, executed, nofile, current_soft, result, fs, it, queue, created, merged>>

\* the final merge writing into the output path itself
FinalMergeInPlace ==
    /\ pc = "final_merge"
    /\ IF ~DirExists(Config.tmp)
       THEN /\ pc' = "panicked"
            /\ UNCHANGED <<fs, merged, created>>
       ELSE IF MergePanics(collected)
       THEN /\ pc' = "panicked"
            /\ fs' = Written(fs, {}, TmpPath(created + 1), Affix(Config.prefix, TRUE))
            /\ merged' = merged
            /\ created' = created + 1
       ELSE \E m \in InternalMerge(collected, fs, Config, TRUE, TRUE) :
            /\ fs' = Written(fs, m.removed, sort.output, m.content)
            /\ merged' = sort.output
            /\ pc' = "rename"
            /\ created' = created + 1
    /\ UNCHANGED <<sort, call, engine, executed, nofile, current_soft, result, it, queue, sorted_files, bdone, collected>>

\* std::fs::rename of the merged file to the output path, which fails when
\* the directory of the output is missing: the `?` returns the error at
\* once; otherwise set_rlimits restores the soft limit and the entry point

\* the final internal_merge of internal_sort: removal and affixes enabled
FinalMerge ==
    /\ pc = "final_merge"
    /\ IF ~DirExists(Config.tmp)
       THEN /\ pc' = "panicked"
            /\ UNCHANGED <<fs, merged, created>>
       ELSE IF MergePanics(collected)
       THEN /\ pc' = "panicked"
            /\ fs' = Written(fs, {}, TmpPath(created + 1), Affix(Config.prefix, TRUE))
            /\ merged' = merged
            /\ created' = created + 1
       ELSE \E m \in InternalMerge(collected, fs, Config, TRUE, TRUE) :
            /\ fs' = Written(fs, m.removed, TmpPath(created + 1), m.content)
            /\ merged' = TmpPath(created + 1)
            /\ pc' = "rename"
            /\ created' = created + 1
    /\ UNCHANGED <<sort, call, engine, executed, nofile, current_soft, result, it, queue, sorted_files, bdone, collected>>

\* std::fs::rename of the merged file to the output path, which fails when
\* the directory of the output is missing: the `?` returns the error at
\* once; otherwise set_rlimits restores the soft limit and the entry point
\* returns Ok
Rename ==
    /\ pc = "rename"
    /\ IF DirExists(sort.output)
       THEN /\ fs' = Written(fs, {merged}, sort.output, fs[merged])
            /\ nofile' = current_soft
            /\ pc' = "done"
       ELSE /\ pc' = "error"
            /\ UNCHANGED <<fs, nofile>>
    /\ UNCHANGED <<sort, call, engine, executed, current_soft, result, it, queue, sorted_files, bdone, collected,
                   created, merged>>

---------------------------------------------------------------------------
(* The jobs checked *)

\* every file of at most n bytes
Files(n) == UNION {[1..k -> InputBytes] : k \in 0..n}

\* Field::new(0, FieldType::String), with or without with_ignore_case(true)
DefaultField == [index |-> 0, field_type |-> "String", ignore_case |-> FALSE]

\* the default filters (ignore_empty off, ignore_lines ^#), and
\* with_ignore_empty() together with with_ignore_lines(^A)
DefaultIgnoreLines == [some |-> TRUE, first |-> Hash]
FilterChoices ==
    {[ignore_empty |-> FALSE, ignore_lines |-> DefaultIgnoreLines],
     [ignore_empty |-> TRUE, ignore_lines |-> [some |-> TRUE, first |-> 65]]}

\* prefix and suffix lines: none, or two of each ("p1", "p2" and "s1", "s2")
NoAffix == [prefix |-> <<>>, suffix |-> <<>>]
AffixChoices ==
    {NoAffix,
     [prefix |-> <<<<112, 49>>, <<112, 50>>>>, suffix |-> <<<<115, 49>>, <<115, 50>>>>]}

\* with_tasks
TaskChoices == {1, 2}

\* with_intermediate_files: the least, and the default
FilesChoices == {1, DefaultFiles}

\* with_chunk_size_bytes: the least, which cuts after every line, and the
\* default, which takes a whole input as one chunk
ChunkSizeChoices == {1, DefaultChunkSize}

\* the Sort value built from the choices
SortValue(inputs, tasks, files, chunk, order, cm, filter, field, affix) ==
    [input_files      |-> inputs,
     tasks            |-> tasks,
     files            |-> files,
     chunk_size_bytes |-> chunk,
     order            |-> order,
     concurrent_merge |-> cm,
     ignore_empty     |-> filter.ignore_empty,
     ignore_lines     |-> filter.ignore_lines,
     field            |-> field,
     prefix           |-> affix.prefix,
     suffix           |-> affix.suffix,
     output           |-> OutPath,
     tmp              |-> TmpDir]

\* the filters and affixes of a job: affixes go with the default filters
FilterAffixChoices ==
    {x \in FilterChoices \X AffixChoices : ~x[1].ignore_empty \/ x[2] = NoAffix}

\* the Sort values of the sort() jobs checked
SortJobs ==
    {SortValue(<<InPath(1)>>, t, f, c, o, cm, fa[1], DefaultField, fa[2]) :
        t \in TaskChoices, f \in FilesChoices, c \in ChunkSizeChoices,
        o \in {"Asc", "Desc"}, cm \in BOOLEAN, fa \in FilterAffixChoices}

\* an iterator over nothing, for the entry points that enumerate no chunks
NoIterator == [path |-> NoPath, length |-> 0, reminder |-> 0, jump |-> 0, pos |-> 0]

\* sort() is entered: the pool is built and the first input is opened
Init ==
    /\ sort \in SortJobs
    /\ call = [op |-> "sort", remove_merged |-> TRUE, add_prefix_suffix |-> TRUE]
    /\ fs \in {[p \in {InPath(1)} |-> content] : content \in Files(MaxLen)}
    /\ pc = "submit"
    /\ it = ChunkIteratorNew(sort.input_files[1], fs, Config.chunk_size_bytes)
    /\ queue = <<>>
    /\ sorted_files = [w \in Workers |-> {}]
    /\ bdone = {}
    /\ collected = <<>>
    /\ created = 0
    /\ merged = NoPath
    /\ current_soft = PriorSoft
    /\ nofile = NewSoft(Config, current_soft)
    /\ result = <<>>
    /\ engine = NoEngine
    /\ executed = <<>>

Next ==
    \/ Submit
    \/ NextInput
    \/ \E w \in Workers : Execute(w)
    \/ \E w \in Workers : MergeSortedFiles(w)
    \/ \E w \in Workers : CollectSortedFiles(w)
    \/ FinalMerge
    \/ Rename

Spec == Init /\ [][Next]_vars

---------------------------------------------------------------------------
(* The merge entry points: Sort::merge, and internal_merge on its own *)

\* Sort::merge (internal_merge without removal, with affixes, then the
\* rename), or, for call.op = "internal_merge", the merge engine alone with
\* the flags of the call
Merge ==
    /\ pc = "internal_merge"
    /\ IF ~DirExists(Config.tmp)
       THEN /\ pc' = "panicked"
            /\ UNCHANGED <<fs, merged, created>>
       ELSE IF MergePanics(sort.input_files)
       THEN /\ pc' = "panicked"
            /\ fs' = Written(fs, {}, TmpPath(created + 1),
                             Affix(Config.prefix, call.add_prefix_suffix))
            /\ merged' = merged
            /\ created' = created + 1
       ELSE \E m \in InternalMerge(sort.input_files, fs, Config,
                                   call.remove_merged, call.add_prefix_suffix) :
            /\ fs' = Written(fs, m.removed, TmpPath(created + 1), m.content)
            /\ merged' = TmpPath(created + 1)
            /\ pc' = IF call.op = "merge" THEN "rename" ELSE "returned"
            /\ created' = created + 1
    /\ UNCHANGED <<sort, call, engine, executed, nofile, current_soft, result, it, queue, sorted_files, bdone, collected>>

\* the lines of a file are in the order of the configuration
IsSortedFile(content, cfg) ==
    LET ls == ReadLines(content) IN
    \A i \in 1..(Len(ls) - 1) : RecordLe(ls[i], ls[i + 1], cfg)

RECURSIVE SortedInputs(_, _, _)
\* every list of k sorted files of at most n bytes in all
SortedInputs(k, n, cfg) ==
    IF k = 0 THEN {<<>>}
    ELSE UNION {{<<f>> \o t : t \in SortedInputs(k - 1, n - Len(f), cfg)}
                : f \in {g \in Files(n) : IsSortedFile(g, cfg)}}

\* the Sort values of the merge jobs checked: k input files, either order,
\* the whole-line String key with or without ignore_case
MergeJobs ==
    {SortValue([i \in 1..k |-> InPath(i)], 1, DefaultFiles, DefaultChunkSize, o, TRUE,
               [ignore_empty |-> FALSE, ignore_lines |-> DefaultIgnoreLines],
               [DefaultField EXCEPT !.ignore_case = ic], af) :
        k \in 0..MaxShards, o \in {"Asc", "Desc"}, ic \in BOOLEAN, af \in AffixChoices}

\* the calls checked: merge(), and internal_merge with affixes disabled, as
\* a sort task and merge_sorted_files call it, with either removal flag
MergeCalls ==
    {[op |-> "merge", remove_merged |-> FALSE, add_prefix_suffix |-> TRUE]}
        \cup [op : {"internal_merge"}, remove_merged : BOOLEAN, add_prefix_suffix : {FALSE}]

\* a merge entry point is entered with sorted input files
InitMerge ==
    /\ sort \in MergeJobs
    /\ call \in MergeCalls
    /\ call.add_prefix_suffix \/ sort.prefix = <<>>
    /\ \E contents \in SortedInputs(Len(sort.input_files), MaxMergeLen, Config) :
           fs = [p \in {InPath(i) : i \in 1..Len(contents)} |-> contents[p[2]]]
    /\ pc = "internal_merge"
    /\ it = NoIterator
    /\ queue = <<>>
    /\ sorted_files = [w \in Workers |-> {}]
    /\ bdone = {}
    /\ collected = <<>>
    /\ created = 0
    /\ merged = NoPath
    /\ current_soft = PriorSoft
    /\ nofile = IF call.op = "merge" THEN NewSoft(Config, current_soft) ELSE current_soft
    /\ result = <<>>
    /\ engine = NoEngine
    /\ executed = <<>>

NextMerge ==
    \/ Merge
    \/ Rename

SpecMerge == InitMerge /\ [][NextMerge]_vars

---------------------------------------------------------------------------
(* What the claims speak of *)

\* the entry point returned Ok
ReturnedOk == pc = "done"

\* a line without its terminator
Body(line) == IF line # <<>> /\ line[Len(line)] = NL THEN SubSeq(line, 1, Len(line) - 1) ELSE line

\* the lines of the input of a sort() job that the filters let through
InputRecords ==
    SelectSeq(ReadLines(fs[InPath(1)]), LAMBDA line : ~Ignored(line, Config))

\* the lines of the output file
OutputLines == ReadLines(fs[OutPath])

\* the lines of the output file between the prefix and the suffix lines
OutputRecords ==
    SubSeq(OutputLines, Len(Config.prefix) + 1, Len(OutputLines) - Len(Config.suffix))

\* the number of times x occurs among the bodies of the lines of ls
Count(ls, x) == Cardinality({i \in 1..Len(ls) : Body(ls[i]) = x})

\* the same lines with the same multiplicities, terminators aside
SameLines(ls, ms) ==
    /\ Len(ls) = Len(ms)
    /\ \A i \in 1..Len(ls) : Count(ls, Body(ls[i])) = Count(ms, Body(ls[i]))

\* adjacent lines are in the configured order
InOrder(ls, cfg) == \A i \in 1..(Len(ls) - 1) : RecordLe(ls[i], ls[i + 1], cfg)

\* every line of the file ends with the terminator
AllTerminated(content) == content = <<>> \/ content[Len(content)] = NL

\* the lines ls in ascending byte order: line l stands at the positions
\* after the lines smaller than it
Ascending(ls) ==
    [k \in 1..Len(ls) |->
        CHOOSE l \in {ls[i] : i \in 1..Len(ls)} :
            /\ Cardinality({i \in 1..Len(ls) : StrCmp(ls[i], l) = "Less"}) < k
            /\ k <= Cardinality({i \in 1..Len(ls) : StrCmp(ls[i], l) # "Greater"})]

---------------------------------------------------------------------------
(* Claims about sort() *)

\* C1 (Permutation): when sort() has returned Ok, the record lines of the
\* output (prefix and suffix lines excluded) are the input lines the filters
\* let through, each as many times as in the input.
C1_Permutation == ReturnedOk => SameLines(OutputRecords, InputRecords)

\* C2 (Order): when sort() has returned Ok, every two adjacent record lines
\* of the output are in the configured order (a <= b for Asc, a >= b for
\* Desc).
C2_Order == ReturnedOk => InOrder(OutputRecords, Config)

\* C3 (No partial success): when sort() has returned Ok the output file
\* exists and holds every non-filtered record, in sorted order; when sort()
\* failed there is no output file.
C3_NoPartialSuccess ==
    /\ ReturnedOk =>
           /\ OutPath \in DOMAIN fs
           /\ SameLines(OutputRecords, InputRecords)
           /\ InOrder(OutputRecords, Config)
    /\ pc = "panicked" => OutPath \notin DOMAIN fs

\* C4 (Stability of line bytes): when sort() has returned Ok, every record
\* line of the output is one of the non-filtered input lines, byte for byte;
\* a final input record without terminator is a line of its own.
C4_LineBytes ==
    ReturnedOk =>
        \A i \in 1..Len(OutputRecords) :
            \E j \in 1..Len(InputRecords) : Body(OutputRecords[i]) = Body(InputRecords[j])

\* C5 (Resource cleanup): when sort() has returned Ok, no file created in
\* tmp_dir by the job is left: each was removed or renamed to the output.
C5_Cleanup == ReturnedOk => \A p \in DOMAIN fs : ~IsTmp(p)

\* C5 witness: sort() returned Ok after sort tasks, a premerge and the
\* per-worker merge created and consumed run files.
C5_Witness ==
    /\ ReturnedOk
    /\ Config.concurrent_merge
    /\ created >= 6

\* C6 (Affix layout): when sort() has returned Ok the output has p + n + s
\* lines, the prefix lines first, the suffix lines last, the sorted records
\* in between; no run held by a worker contains an affix line.
C6_AffixLayout ==
    /\ ReturnedOk =>
           LET p == Len(Config.prefix)
               n == Len(InputRecords)
               s == Len(Config.suffix)
           IN  /\ Len(OutputLines) = p + n + s
               /\ \A i \in 1..p : OutputLines[i] = Writeln(Config.prefix[i])
               /\ \A i \in 1..s : OutputLines[p + n + i] = Writeln(Config.suffix[i])
               /\ InOrder(OutputRecords, Config)
    /\ \A w \in Workers : \A f \in sorted_files[w] :
           \A i \in 1..Len(fs[f.path]) : fs[f.path][i] \in InputBytes

\* the output of the job when the whole input is one chunk, sorted by one
\* task and streamed through the final merge
OneChunkOutput ==
    Affix(Config.prefix, TRUE)
        \o ChunkBytes(SortRecords(InputRecords, Config))
        \o Affix(Config.suffix, TRUE)

\* C7 (Schedule independence): when sort() has returned Ok, the output is
\* byte for byte the output of the run with one task and one chunk,
\* whatever the task count, the chunk size, concurrent_merge and the order
\* in which the workers took the sort tasks.
C7_ScheduleIndependence == ReturnedOk => fs[OutPath] = OneChunkOutput

\* the configuration sorts as the default one does: ascending whole-line
\* String key, default filters, no affixes
DefaultSorting ==
    /\ sort.order = "Asc"
    /\ sort.field = DefaultField
    /\ ~sort.ignore_empty
    /\ sort.ignore_lines = DefaultIgnoreLines
    /\ sort.prefix = <<>> /\ sort.suffix = <<>>

\* C8 (Shuffle then sort): the input being a permutation of the lines of a
\* file sorted ascending whose lines are all terminated, when sort() has
\* returned Ok under the default sorting the output is that sorted file.
C8_ShuffleThenSort ==
    (ReturnedOk /\ DefaultSorting /\ AllTerminated(fs[InPath(1)])) =>
        fs[OutPath] = Concat(Ascending(ReadLines(fs[InPath(1)])))

\* C8 witness: sort() returned Ok under the default sorting on an input of
\* terminated lines that was not sorted, cut into several chunks.
C8_Witness ==
    /\ ReturnedOk /\ DefaultSorting /\ AllTerminated(fs[InPath(1)])
    /\ Len(ReadLines(fs[InPath(1)])) >= 3
    /\ \E i, j \in 1..Len(fs[InPath(1)]) : fs[InPath(1)][i] = 65 /\ fs[InPath(1)][j] = 97
    /\ fs[InPath(1)] # fs[OutPath]
    /\ created >= 4

---------------------------------------------------------------------------
(* Claims about the merge engine and merge() *)

RECURSIVE Interleavings(_)
\* every way of interleaving the sequences of ss, each keeping its order
Interleavings(ss) ==
    IF \A i \in 1..Len(ss) : ss[i] = <<>> THEN {<<>>}
    ELSE UNION {{<<Head(ss[i])>> \o t : t \in Interleavings([ss EXCEPT ![i] = Tail(ss[i])])}
                : i \in {j \in 1..Len(ss) : ss[j] # <<>>}}

\* the lines of the files, file after file
LinesOf(files, fsys) == Concat([i \in 1..Len(files) |-> ReadLines(fsys[files[i]])])

\* the sorted files of which the given files are a partition into shards:
\* the lines of each shard are lines of the file, in the order of the file
Originals(files, fsys, cfg) ==
    {Concat(ls) : ls \in {x \in Interleavings([i \in 1..Len(files) |-> ReadLines(fsys[files[i]])]) :
                              /\ ReadLines(Concat(x)) = x
                              /\ IsSortedFile(Concat(x), cfg)}}

\* the merge engine ran over the input files with affixes disabled and
\* returned Ok
EngineStep ==
    /\ pc = "internal_merge" /\ pc' = "returned"
    /\ ~call.add_prefix_suffix

\* C9 (Merge equivalence), as stated: the shards being a partition of a
\* sorted file, the merge engine run over them with affixes disabled writes
\* a file byte-equal to that file.
C9_MergeEquivalence ==
    [][EngineStep =>
           \A o \in Originals(sort.input_files, fs, Config) : fs'[merged'] = o]_vars

\* C9 (Merge equivalence), amended: the same when the key is the whole line
\* compared byte-wise (no ignore_case), so that only identical lines have
\* equal keys.
C9_MergeEquivalenceBytewise ==
    [][(EngineStep /\ ~sort.field.ignore_case) =>
           \A o \in Originals(sort.input_files, fs, Config) : fs'[merged'] = o]_vars

\* C9 witness: the engine returned after merging two non-empty shards under
\* the byte-wise key; the shard still on disk has all its lines terminated,
\* and they are neither the first nor the last lines of the merged file,
\* which has three lines or more.
C9_Witness ==
    /\ pc = "returned"
    /\ ~call.add_prefix_suffix /\ ~sort.field.ignore_case
    /\ Len(ReadLines(fs[merged])) >= 3
    /\ \E i \in 1..Len(sort.input_files) :
           LET p == sort.input_files[i] IN
           /\ p \in DOMAIN fs
           /\ fs[p] # <<>> /\ AllTerminated(fs[p])
           /\ Len(fs[p]) < Len(fs[merged])
           /\ SubSeq(fs[merged], 1, Len(fs[p])) # fs[p]
           /\ SubSeq(fs[merged], Len(fs[merged]) - Len(fs[p]) + 1, Len(fs[merged])) # fs[p]

\* C10 (Standalone merge): when merge() of sorted input files succeeds, its
\* output has as many lines as the inputs together plus the affix lines,
\* every input line as many times as in the inputs together, and its
\* records in non-decreasing order.
C10_MergeCounts ==
    [][(pc = "internal_merge" /\ call.op = "merge" /\ pc' = "rename") =>
           LET out == ReadLines(fs'[merged'])
               ins == LinesOf(sort.input_files, fs)
               recs == SubSeq(out, Len(Config.prefix) + 1, Len(out) - Len(Config.suffix))
           IN  /\ Len(out) = Len(ins) + Len(Config.prefix) + Len(Config.suffix)
               /\ SameLines(recs, ins)
               /\ InOrder(recs, Config)]_vars

---------------------------------------------------------------------------
(* sort() of an input that is already sorted *)

\* the Sort values of the jobs checked on sorted inputs: no affixes, the
\* default filters, the whole-line String key with or without ignore_case
SortedJobs ==
    {SortValue(<<InPath(1)>>, t, f, c, o, cm, [ignore_empty |-> FALSE,
               ignore_lines |-> DefaultIgnoreLines],
               [DefaultField EXCEPT !.ignore_case = ic], NoAffix) :
        t \in TaskChoices, f \in FilesChoices, c \in ChunkSizeChoices,
        o \in {"Asc", "Desc"}, cm \in BOOLEAN, ic \in BOOLEAN}

\* sort() is entered on an input file that is sorted under the
\* configuration of the job
InitSorted ==
    /\ sort \in SortedJobs
    /\ call = [op |-> "sort", remove_merged |-> TRUE, add_prefix_suffix |-> TRUE]
    /\ fs \in {[p \in {InPath(1)} |-> content] :
                  content \in {g \in Files(MaxLen) : IsSortedFile(g, Config)}}
    /\ pc = "submit"
    /\ it = ChunkIteratorNew(sort.input_files[1], fs, Config.chunk_size_bytes)
    /\ queue = <<>>
    /\ sorted_files = [w \in Workers |-> {}]
    /\ bdone = {}
    /\ collected = <<>>
    /\ created = 0
    /\ merged = NoPath
    /\ current_soft = PriorSoft
    /\ nofile = NewSoft(Config, current_soft)
    /\ result = <<>>
    /\ engine = NoEngine
    /\ executed = <<>>

SpecSorted == InitSorted /\ [][Next]_vars

\* C11 (Idempotence), as stated: when sort() of an already sorted file has
\* returned Ok (no affixes, no line filtered), the output is the input byte
\* for byte, also under a key for which different lines compare equal.
C11_Idempotence == ReturnedOk => fs[OutPath] = fs[InPath(1)]

\* C11 (Idempotence), amended: the same when only identical lines have
\* equal keys (whole-line String key without ignore_case).
C11_IdempotenceBytewise ==
    (ReturnedOk /\ ~sort.field.ignore_case) => fs[OutPath] = fs[InPath(1)]

\* C11 witness: sort() returned Ok on a sorted input of three lines or
\* more, not all the same, cut into several chunks, under the byte-wise key.
C11_Witness ==
    /\ ReturnedOk /\ ~sort.field.ignore_case
    /\ Len(ReadLines(fs[InPath(1)])) >= 3
    /\ \E i, j \in 1..Len(fs[InPath(1)]) : fs[InPath(1)][i] = 65 /\ fs[InPath(1)][j] = 97
    /\ created >= 4

---------------------------------------------------------------------------
(* sort() under the whole-line String key with or without ignore_case *)

\* the Sort values of these jobs: no affixes, the default filters
CaseJobs ==
    {SortValue(<<InPath(1)>>, t, f, c, o, cm, [ignore_empty |-> FALSE,
               ignore_lines |-> DefaultIgnoreLines],
               [DefaultField EXCEPT !.ignore_case = ic], NoAffix) :
        t \in TaskChoices, f \in {DefaultFiles}, c \in ChunkSizeChoices,
        o \in {"Asc", "Desc"}, cm \in BOOLEAN, ic \in BOOLEAN}

\* sort() is entered with such a job
InitCase ==
    /\ sort \in CaseJobs
    /\ call = [op |-> "sort", remove_merged |-> TRUE, add_prefix_suffix |-> TRUE]
    /\ fs \in {[p \in {InPath(1)} |-> content] : content \in Files(MaxLen)}
    /\ pc = "submit"
    /\ it = ChunkIteratorNew(sort.input_files[1], fs, Config.chunk_size_bytes)
    /\ queue = <<>>
    /\ sorted_files = [w \in Workers |-> {}]
    /\ bdone = {}
    /\ collected = <<>>
    /\ created = 0
    /\ merged = NoPath
    /\ current_soft = PriorSoft
    /\ nofile = NewSoft(Config, current_soft)
    /\ result = <<>>
    /\ engine = NoEngine
    /\ executed = <<>>

SpecCase == InitCase /\ [][Next]_vars

\* a sequence in reverse
Reverse(s) == [i \in 1..Len(s) |-> s[Len(s) + 1 - i]]

\* the configuration with the other order
OppositeOrder(cfg) == [cfg EXCEPT !.order = IF @ = "Asc" THEN "Desc" ELSE "Asc"]

\* the lines of the output of the job of the other order on the same
\* input, when the whole input is one chunk
OppositeOutputLines ==
    ReadLines(ChunkBytes(SortRecords(InputRecords, OppositeOrder(Config))))

---------------------------------------------------------------------------
(* Claims about the run files of the workers *)

\* the sorted runs the workers hold
LiveRuns == UNION {sorted_files[w] : w \in Workers}

\* C13 (Run-file budget): in every reachable state each worker holds at
\* most floor(max_runs / tasks) sorted runs, the workers together at most
\* max_runs, and the final merge is given at most max_runs files; max_runs
\* is the configured number of intermediate files, at least 2 * tasks.
C13_RunBudget ==
    /\ \A w \in Workers : Cardinality(sorted_files[w]) <= Config.files \div Config.tasks
    /\ Cardinality(LiveRuns) <= Config.files
    /\ Len(collected) <= Config.files

\* C13 witness: while chunks are still being submitted, a worker holds
\* floor(max_runs / tasks) runs after a sort task that merged (and removed)
\* its two smallest runs before writing its own.
C13_Witness ==
    /\ pc = "submit"
    /\ \E w \in Workers :
           Cardinality(sorted_files[w]) = Config.files \div Config.tasks
    /\ Cardinality({p \in DOMAIN fs : IsTmp(p)}) < created

---------------------------------------------------------------------------
(* The chunk enumerator on its own: the submit loop of internal_sort over  *)
(* one input file, for every target chunk size from 0 to beyond the size   *)
(* of the file.  queue holds the chunks yielded so far, in order.          *)

\* the target chunk sizes checked
ChunkTargets == 0..(MaxLen + 1)

\* the Sort values of these jobs: the defaults, but for the chunk size
ChunkJobs ==
    {SortValue(<<InPath(1)>>, 1, DefaultFiles, c, "Asc", FALSE,
               [ignore_empty |-> FALSE, ignore_lines |-> DefaultIgnoreLines],
               DefaultField, NoAffix) : c \in ChunkTargets}

InitChunks ==
    /\ sort \in ChunkJobs
    /\ call = [op |-> "sort", remove_merged |-> TRUE, add_prefix_suffix |-> TRUE]
    /\ fs \in {[p \in {InPath(1)} |-> content] : content \in Files(MaxLen)}
    /\ pc = "submit"
    /\ it = ChunkIteratorNew(sort.input_files[1], fs, Config.chunk_size_bytes)
    /\ queue = <<>>
    /\ sorted_files = [w \in Workers |-> {}]
    /\ bdone = {}
    /\ collected = <<>>
    /\ created = 0
    /\ merged = NoPath
    /\ current_soft = PriorSoft
    /\ nofile = NewSoft(Config, current_soft)
    /\ result = <<>>
    /\ engine = NoEngine
    /\ executed = <<>>

NextChunks ==
    \/ Submit
    \/ NextInput

SpecChunks == InitChunks /\ [][NextChunks]_vars

\* the file the enumerator reads
ChunkedFile == fs[it.path]

\* the offset just past chunk c
ChunkEnd(c) == c.offset + c.length

\* the enumerator returned None
Exhausted == ~HasNext(it)

\* C14 (Chunk coverage): the chunks yielded start at offset 0, each starts
\* where the one before ended, each has positive length; once the
\* enumerator is exhausted they end at the end of the file (their lengths
\* sum to its size) and there is no chunk iff the file is empty.
C14_ChunkCoverage ==
    /\ queue # <<>> => queue[1].offset = 0
    /\ \A i \in 1..(Len(queue) - 1) : queue[i + 1].offset = ChunkEnd(queue[i])
    /\ \A i \in 1..Len(queue) : queue[i].length > 0
    /\ Exhausted =>
           /\ queue # <<>> => ChunkEnd(queue[Len(queue)]) = Len(ChunkedFile)
           /\ queue = <<>> <=> ChunkedFile = <<>>

\* C14 witness: the enumerator is exhausted after three chunks or more
\* with a target size of 0.
C14_Witness ==
    /\ Exhausted
    /\ it.jump = 0
    /\ Len(queue) >= 3

\* the bytes of chunk c
ChunkContent(c) == SubSeq(ChunkedFile, c.offset + 1, ChunkEnd(c))

\* C15 (Chunk alignment): every chunk ends at the end of the file or just
\* after a terminator; once the enumerator is exhausted the lines of the
\* chunks are the lines of the file; a chunk closed by a forward seek of
\* the target size contains the byte the seek landed on, that is, only a
\* chunk that ends the file can be as short as the target size.
C15_ChunkAlignment ==
    /\ \A i \in 1..Len(queue) :
           \/ ChunkEnd(queue[i]) = Len(ChunkedFile)
           \/ /\ ChunkEnd(queue[i]) \in 1..Len(ChunkedFile)
              /\ ChunkedFile[ChunkEnd(queue[i])] = NL
    /\ Exhausted =>
           Concat([i \in 1..Len(queue) |-> ReadLines(ChunkContent(queue[i]))])
               = ReadLines(ChunkedFile)
    /\ \A i \in 1..Len(queue) :
           queue[i].length <= it.jump =>
               i = Len(queue) /\ ChunkEnd(queue[i]) = Len(ChunkedFile)

\* C15 witness: the enumerator is exhausted after two chunks or more, one
\* of them of several lines, closed by a seek that landed inside a line.
C15_Witness ==
    /\ Exhausted
    /\ Len(queue) >= 2
    /\ \E i \in 1..(Len(queue) - 1) :
           /\ Len(ReadLines(ChunkContent(queue[i]))) >= 2
           /\ ChunkedFile[queue[i].offset + it.jump] # NL
           /\ ChunkedFile[queue[i].offset + it.jump + 1] # NL

\* C16 (One chunk): the target size being at least the size of a non-empty
\* file, the enumerator yields one chunk, of offset 0 and of the size of
\* the file, and is then exhausted.
C16_OneChunk ==
    (ChunkedFile # <<>> /\ it.jump >= Len(ChunkedFile)) =>
        /\ Len(queue) <= 1
        /\ queue # <<>> =>
               queue[1] = [offset |-> 0, length |-> Len(ChunkedFile), path |-> it.path]
        /\ Exhausted <=> Len(queue) = 1

\* C16 witness: the enumerator is exhausted after one chunk on a file of
\* several lines whose size is the target size.
C16_Witness ==
    /\ Exhausted
    /\ Len(queue) = 1
    /\ it.jump = Len(ChunkedFile)
    /\ Len(ReadLines(ChunkedFile)) >= 2

---------------------------------------------------------------------------
(* Sort::check *)

RECURSIVE InternalCheck(_, _, _, _)
\* Sort::internal_check from the bytes not yet read: read_line appends the
\* next line to `line`, which is emptied only after a record was built from
\* it (the two `continue` of the filters leave it as it is); `previous` is
\* <<>> for None and <<l>> for the record built from l
InternalCheck(rest, line, previous, cfg) ==
    IF rest = <<>> THEN TRUE
    ELSE LET current == line \o SubSeq(rest, 1, LineLen(rest))
             tail == SubSeq(rest, LineLen(rest) + 1, Len(rest))
         IN  IF Ignored(current, cfg) THEN InternalCheck(tail, current, previous, cfg)
             ELSE IF previous = <<>> \/ RecordLe(previous[1], current, cfg)
                  THEN InternalCheck(tail, <<>>, <<current>>, cfg)
                  ELSE FALSE

RECURSIVE CheckLoop(_, _, _)
\* the loop of Sort::check: internal_check file after file, left at the
\* first file that gives false
CheckLoop(files, fsys, cfg) ==
    IF files = <<>> THEN TRUE
    ELSE IF ~InternalCheck(fsys[files[1]], <<>>, <<>>, cfg) THEN FALSE
    ELSE CheckLoop(Tail(files), fsys, cfg)

\* Sort::check returns Ok(result)
Check ==
    /\ pc = "check"
    /\ result' = <<CheckLoop(sort.input_files, fs, Config)>>
    /\ pc' = "done"
    /\ UNCHANGED <<sort, call, engine, executed, nofile, current_soft, fs, it, queue, sorted_files, bdone,
                   collected, created, merged>>

\* the Sort values of the check() jobs: k input files, either order, the
\* default filters or with_ignore_empty() with with_ignore_lines(^A)
CheckJobs ==
    {SortValue([i \in 1..k |-> InPath(i)], 1, DefaultFiles, DefaultChunkSize, o, TRUE,
               fl, DefaultField, NoAffix) :
        k \in 1..MaxShards, o \in {"Asc", "Desc"}, fl \in FilterChoices}

RECURSIVE FileLists(_, _)
\* every list of k files of at most n bytes in all
FileLists(k, n) ==
    IF k = 0 THEN {<<>>}
    ELSE UNION {{<<f>> \o t : t \in FileLists(k - 1, n - Len(f))} : f \in Files(n)}

\* check() is entered
InitCheck ==
    /\ sort \in CheckJobs
    /\ call = [op |-> "check", remove_merged |-> FALSE, add_prefix_suffix |-> FALSE]
    /\ \E contents \in FileLists(Len(sort.input_files), MaxLen) :
           fs = [p \in {InPath(i) : i \in 1..Len(contents)} |-> contents[p[2]]]
    /\ pc = "check"
    /\ it = NoIterator
    /\ queue = <<>>
    /\ sorted_files = [w \in Workers |-> {}]
    /\ bdone = {}
    /\ collected = <<>>
    /\ created = 0
    /\ merged = NoPath
    /\ current_soft = PriorSoft
    /\ nofile = current_soft
    /\ result = <<>>
    /\ engine = NoEngine
    /\ executed = <<>>

NextCheck == Check

SpecCheck == InitCheck /\ [][NextCheck]_vars

\* the lines of a file that the filters let through, each line judged on
\* its own
SurvivingLines(content, cfg) ==
    SelectSeq(ReadLines(content), LAMBDA l : ~Ignored(l, cfg))

\* check() returned
Checked == call.op = "check" /\ result # <<>>

\* C17: check() on a single file returns true exactly when every adjacent
\* pair of the records built from the lines surviving the filters
\* satisfies prev <= cur under the configured order, so that a filtered
\* line changes neither the verdict nor any later record
C17_SingleFileVerdict ==
    (Checked /\ Len(sort.input_files) = 1)
        => result[1] = InOrder(SurvivingLines(fs[InPath(1)], Config), Config)

\* C18: check() over several files returns true exactly when each file
\* taken on its own is sorted under the configured order
C18_PerFileVerdict ==
    (Checked /\ Len(sort.input_files) > 1)
        => result[1] = (\A i \in 1..Len(sort.input_files) :
                            InOrder(SurvivingLines(fs[sort.input_files[i]], Config), Config))

---------------------------------------------------------------------------
(* Sort::sort from its first line: the open-file limit and the inputs *)

\* bound on the bytes of one input file of the jobs entered from the first
\* line of sort()
MaxEntryLen == 2

\* the soft limits get_rlimits may find: below and above max_runs + 256
SoftChoices == {PriorSoft, 2 * PriorSoft}

\* Sort::sort up to the first chunk: get_rlimits, set_rlimits(new_soft),
\* then internal_sort builds the pool and opens the first input;
\* ChunkIterator::new(..).unwrap() panics when the input cannot be opened,
\* and with no input the loop is not entered
Start ==
    /\ pc = "start"
    /\ current_soft' = nofile
    /\ nofile' = NewSoft(Config, nofile)
    /\ IF sort.input_files = <<>>
       THEN /\ it' = it
            /\ pc' = IF Config.concurrent_merge THEN "merge_sorted_files"
                     ELSE "collect_sorted_files"
       ELSE IF sort.input_files[1] \in DOMAIN fs
            THEN /\ it' = ChunkIteratorNew(sort.input_files[1], fs, Config.chunk_size_bytes)
                 /\ pc' = "submit"
            ELSE /\ it' = it
                 /\ pc' = "panicked"
    /\ UNCHANGED <<sort, call, engine, executed, result, fs, queue, sorted_files, bdone, collected, created, merged>>

\* the Sort values of the jobs entered from the first line: no input, one
\* or two, with or without affixes, an output in an existing or in a
\* missing directory
EntryJobs ==
    {[SortValue([i \in 1..k |-> InPath(i)], t, DefaultFiles, c, "Asc", cm,
                [ignore_empty |-> FALSE, ignore_lines |-> DefaultIgnoreLines],
                DefaultField, af) EXCEPT !.output = out] :
        k \in 0..MaxShards, t \in TaskChoices, c \in ChunkSizeChoices, cm \in BOOLEAN,
        af \in AffixChoices, out \in {OutPath, NoDirPath}}

\* the file systems of a job: each input path names a file of at most
\* MaxEntryLen bytes, or no file
EntryFileSystems(inputs) ==
    UNION {[ps -> Files(MaxEntryLen)] : ps \in SUBSET {inputs[i] : i \in 1..Len(inputs)}}

\* the caller is about to call sort()
InitEntry ==
    /\ sort \in EntryJobs
    /\ call = [op |-> "sort", remove_merged |-> TRUE, add_prefix_suffix |-> TRUE]
    /\ fs \in EntryFileSystems(sort.input_files)
    /\ pc = "start"
    /\ it = NoIterator
    /\ queue = <<>>
    /\ sorted_files = [w \in Workers |-> {}]
    /\ bdone = {}
    /\ collected = <<>>
    /\ created = 0
    /\ merged = NoPath
    /\ nofile \in SoftChoices
    /\ current_soft = 0
    /\ result = <<>>
    /\ engine = NoEngine
    /\ executed = <<>>

NextEntry ==
    \/ Start
    \/ Next

SpecEntry == InitEntry /\ [][NextEntry]_vars

\* sort() or merge() is at work: entered, and neither returned nor panicked
Working == call.op \in {"sort", "merge"} /\ pc \notin {"start", "done", "error", "panicked"}

\* sort() or merge() returned, Ok or Err
Returned == call.op \in {"sort", "merge"} /\ pc \in {"done", "error"}

\* C19: sort() and merge() hold the soft limit at max(current soft limit,
\* max_runs + 256) for as long as they work, and the prior soft limit is
\* back in place once they returned, with Ok or with an error
C19_OpenFileLimit ==
    /\ Working => nofile = NewSoft(Config, current_soft)
    /\ Returned => nofile = current_soft

\* the input list of sort() is empty or names a file that does not exist
BadInputs ==
    /\ call.op = "sort"
    /\ \/ sort.input_files = <<>>
       \/ \E i \in 1..Len(sort.input_files) : sort.input_files[i] \notin DOMAIN fs

\* C20: with an empty input list or a non-existent input path sort()
\* neither panics nor returns Ok: it returns an error value
C20_TypedError == BadInputs => pc \notin {"panicked", "done"}

---------------------------------------------------------------------------
(* Key::cmp and Key::eq on Number keys *)

\* bound on the whole numbers among the f64 values compared
MaxNumber == 2

\* the Number keys compared: NaN and the whole numbers up to the bound
NumberKeys == {NumberKey(NaN)} \cup {NumberKey(Num(v)) : v \in 0..MaxNumber}

\* three keys are compared pairwise with Key::cmp, and with Key::eq
KeyCompare ==
    /\ pc = "key_cmp"
    /\ result' = <<[ab |-> KeyCmp(call.a, call.b), ba |-> KeyCmp(call.b, call.a),
                    bc |-> KeyCmp(call.b, call.c), ac |-> KeyCmp(call.a, call.c),
                    aa |-> KeyCmp(call.a, call.a), eq |-> KeyEq(call.a, call.b)]>>
    /\ pc' = "done"
    /\ UNCHANGED <<sort, call, engine, executed, nofile, current_soft, fs, it, queue, sorted_files, bdone,
                   collected, created, merged>>

\* three Number keys are about to be compared
InitKeys ==
    /\ sort = SortValue(<<>>, 1, DefaultFiles, DefaultChunkSize, "Asc", TRUE,
                        [ignore_empty |-> FALSE, ignore_lines |-> DefaultIgnoreLines],
                        [DefaultField EXCEPT !.field_type = "Number"], NoAffix)
    /\ call \in [op : {"key_cmp"}, a : NumberKeys, b : NumberKeys, c : NumberKeys]
    /\ fs = <<>>
    /\ pc = "key_cmp"
    /\ it = NoIterator
    /\ queue = <<>>
    /\ sorted_files = [w \in Workers |-> {}]
    /\ bdone = {}
    /\ collected = <<>>
    /\ created = 0
    /\ merged = NoPath
    /\ current_soft = PriorSoft
    /\ nofile = current_soft
    /\ result = <<>>
    /\ engine = NoEngine
    /\ executed = <<>>

NextKeys == KeyCompare

SpecKeys == InitKeys /\ [][NextKeys]_vars

\* the keys of the call were compared
KeysCompared == call.op = "key_cmp" /\ result # <<>>

\* a <= b, from the Ordering Key::cmp returned
NotGreater(ordering) == ordering # "Greater"

\* Key::cmp is a total order on the keys compared: the two directions of a
\* comparison are converse, a key equals itself, and <= is transitive
TotalOrder ==
    KeysCompared =>
        LET r == result[1] IN
        /\ r.aa = "Equal"
        /\ (r.ab = "Less") = (r.ba = "Greater")
        /\ (r.ab = "Equal") = (r.ba = "Equal")
        /\ (NotGreater(r.ab) /\ NotGreater(r.bc)) => NotGreater(r.ac)

\* C22: Number keys are totally ordered with NaN == NaN and NaN greater
\* than every non-NaN value, and Key::eq agrees with Key::cmp returning
\* Equal
C22_NumberOrder ==
    KeysCompared =>
        LET r == result[1] IN
        /\ TotalOrder
        /\ (call.a.n.nan /\ call.b.n.nan) => r.ab = "Equal"
        /\ (call.a.n.nan /\ ~call.b.n.nan) => r.ab = "Greater"
        /\ r.eq = (r.ab = "Equal")

---------------------------------------------------------------------------
(* LineRecord::new and the order of LineRecords *)

\* bound on the bytes of a line before its terminator
MaxLineLen == 3

\* the bytes of the lines: the separator, a digit and the letters of "NaN"
FieldBytes == {Tab, 49, 78, 97}

\* the lines without a terminator
LineBodies == UNION {[1..k -> FieldBytes] : k \in 0..MaxLineLen}

\* Field::new(index, field_type)
FieldOf(index, field_type) == [index |-> index, field_type |-> field_type, ignore_case |-> FALSE]

FieldTypes == {"String", "Integer", "Number"}

\* the field lists records are built from: one or two fields, any index up
\* to 2 and any type
FieldLists ==
    {<<FieldOf(i, t)>> : i \in 0..2, t \in FieldTypes}
        \cup {<<FieldOf(i, t), FieldOf(j, u)>> : i \in 0..2, j \in 0..2,
                                                  t \in FieldTypes, u \in FieldTypes}

\* the field lists records are compared under: the whole line, or one or
\* two fields of distinct index
CmpFieldLists ==
    {<<FieldOf(i, t)>> : i \in 0..2, t \in FieldTypes}
        \cup {<<FieldOf(i, t), FieldOf(3 - i, u)>> : i \in 1..2,
                                                      t \in {"String", "Integer"},
                                                      u \in {"String", "Integer"}}

\* LineRecord::new(line, fields, field_separator, order)
RecordNew ==
    /\ pc = "record_new"
    /\ result' = <<LineRecordNew(call.a, call.fields, Tab)>>
    /\ pc' = "done"
    /\ UNCHANGED <<sort, call, engine, executed, nofile, current_soft, fs, it, queue, sorted_files, bdone,
                   collected, created, merged>>

\* two records are built with the same fields and order, then compared
\* with LineRecord::cmp
RecordCompare ==
    /\ pc = "record_cmp"
    /\ LET a == LineRecordNew(call.a, call.fields, Tab)
           b == LineRecordNew(call.b, call.fields, Tab)
       IN  result' = IF a.ok /\ b.ok
                     THEN <<[a |-> a.v, b |-> b.v, cmp |-> RecordCmp(a.v, b.v, call.order)]>>
                     ELSE <<>>
    /\ pc' = IF result' = <<>> THEN "error" ELSE "done"
    /\ UNCHANGED <<sort, call, engine, executed, nofile, current_soft, fs, it, queue, sorted_files, bdone,
                   collected, created, merged>>

\* the calls checked: a record built from a line with or without its
\* terminator, and two records compared
RecordCalls ==
    [op : {"record_new"}, fields : FieldLists, order : {"Asc"},
     a : LineBodies \cup {Writeln(l) : l \in LineBodies}, b : {<<>>}]
        \cup [op : {"record_cmp"}, fields : CmpFieldLists, order : {"Asc", "Desc"},
              a : LineBodies, b : LineBodies]

InitRecords ==
    /\ sort = SortValue(<<>>, 1, DefaultFiles, DefaultChunkSize, "Asc", TRUE,
                        [ignore_empty |-> FALSE, ignore_lines |-> DefaultIgnoreLines],
                        DefaultField, NoAffix)
    /\ call \in RecordCalls
    /\ fs = <<>>
    /\ pc = call.op
    /\ it = NoIterator
    /\ queue = <<>>
    /\ sorted_files = [w \in Workers |-> {}]
    /\ bdone = {}
    /\ collected = <<>>
    /\ created = 0
    /\ merged = NoPath
    /\ current_soft = PriorSoft
    /\ nofile = current_soft
    /\ result = <<>>
    /\ engine = NoEngine
    /\ executed = <<>>

NextRecords ==
    \/ RecordNew
    \/ RecordCompare

SpecRecords == InitRecords /\ [][NextRecords]_vars

\* the positions at which two key vectors of the same length differ
Differing(ks, ls) == {k \in 1..Len(ks) : KeyCmp(ks[k], ls[k]) # "Equal"}

\* the lexicographic comparison of two key vectors of the same length: the
\* first position that differs decides
Lexicographic(ks, ls) ==
    IF Differing(ks, ls) = {} THEN "Equal"
    ELSE LET k == CHOOSE k \in Differing(ks, ls) : \A j \in Differing(ks, ls) : k <= j
         IN  KeyCmp(ks[k], ls[k])

\* two records were built and compared
RecordsCompared == call.op = "record_cmp" /\ pc = "done"

\* C23: LineRecord::cmp is the lexicographic comparison of the two key
\* vectors, flipped (Less <-> Greater, Equal unchanged) under Order::Desc;
\* the text of the lines takes no part in it
C23_RecordOrder ==
    RecordsCompared =>
        LET r   == result[1]
            lex == Lexicographic(r.a.keys, r.b.keys)
        IN  /\ call.order = "Asc" => r.cmp = lex
            /\ call.order = "Desc" =>
                   r.cmp = (IF lex = "Less" THEN "Greater"
                            ELSE IF lex = "Greater" THEN "Less" ELSE "Equal")

\* two records of different lines and two fields, equal in the first key,
\* are told apart by the second under Order::Desc
C23_Witness ==
    /\ RecordsCompared
    /\ call.order = "Desc"
    /\ Len(call.fields) = 2
    /\ call.a # call.b
    /\ KeyCmp(result[1].a.keys[1], result[1].b.keys[1]) = "Equal"
    /\ result[1].cmp = "Greater"

\* a record was built, or refused, from the line of the call
RecordBuilt == call.op = "record_new" /\ pc = "done"

\* a field of the list has index 0 though the list holds more than one field
ZeroIndexMixed(fields) == Len(fields) > 1 /\ \E k \in 1..Len(fields) : fields[k].index = 0

\* a field of the list has an index beyond the parts of the line
IndexBeyondParts(fields, line) ==
    \E k \in 1..Len(fields) : fields[k].index > Len(Split(line, Tab))

\* the text of the line a field is the key of
FieldText(field, line) ==
    IF field.index = 0 THEN line ELSE Split(line, Tab)[field.index]

\* an Integer or Number field of the list does not parse
ParseFails(fields, line) ==
    \E k \in 1..Len(fields) :
        /\ fields[k].field_type # "String"
        /\ fields[k].index <= Len(Split(line, Tab))
        /\ ~KeyNewResult(FieldText(fields[k], line), fields[k]).ok

\* C24: LineRecord::new returns an error exactly when a field index exceeds
\* the parts of the line, an Integer or Number field does not parse, or
\* index 0 stands in a list of more than one field; otherwise the record
\* has one key per field and the line as it was given
C24_RecordConstruction ==
    RecordBuilt =>
        LET r == result[1] IN
        /\ ~r.ok = (\/ ZeroIndexMixed(call.fields)
                    \/ IndexBeyondParts(call.fields, call.a)
                    \/ ParseFails(call.fields, call.a))
        /\ r.ok => (Len(r.v.keys) = Len(call.fields) /\ r.v.line = call.a)

\* a record of two keys was built from a terminated line of two parts
C24_Witness ==
    /\ RecordBuilt
    /\ result[1].ok
    /\ Len(result[1].v.keys) = 2
    /\ call.a[Len(call.a)] = NL
    /\ result[1].v.keys[1].t = "Integer"
    /\ result[1].v.keys[2].t = "Number"

---------------------------------------------------------------------------
(* The commands of the pool: a job is followed through its sort tasks, with
   Integer keys that a line may fail to parse as and with a temp directory
   that may be missing *)

\* total number of bytes of the input of a job followed through its tasks
MaxTaskLen == 4

\* NL, "1", "a"
TaskBytes == {NL, 49, 97}

\* the whole line as the key, as a String or as an Integer
TaskFields == {DefaultField, [index |-> 0, field_type |-> "Integer", ignore_case |-> FALSE]}

\* with_tmp_dir: a directory that exists, and one that does not
TmpChoices == {TmpDir, NoDirPath}

\* with_tasks: 0 stands for the number of cores
TaskCounts == {0, 1, 2}

\* with_intermediate_files: below and above twice the tasks, and the
\* default
TaskFiles == {1, 3, 5, DefaultFiles}

\* the Sort values of the jobs followed through their tasks: every line is
\* a chunk of its own
TaskJobs ==
    {[SortValue(<<InPath(1)>>, t, f, 1, "Asc", FALSE, [ignore_empty |-> FALSE, ignore_lines |-> DefaultIgnoreLines], fd, NoAffix)
         EXCEPT !.tmp = d] :
        t \in TaskCounts, f \in TaskFiles, fd \in TaskFields, d \in TmpChoices}

InitTasks ==
    /\ sort \in TaskJobs
    /\ call = [op |-> "sort", remove_merged |-> TRUE, add_prefix_suffix |-> TRUE]
    /\ fs \in {[p \in {InPath(1)} |-> content] :
                  content \in UNION {[1..k -> TaskBytes] : k \in 0..MaxTaskLen}}
    /\ pc = "submit"
    /\ it = ChunkIteratorNew(sort.input_files[1], fs, Config.chunk_size_bytes)
    /\ queue = <<>>
    /\ sorted_files = [w \in Workers |-> {}]
    /\ bdone = {}
    /\ collected = <<>>
    /\ created = 0
    /\ merged = NoPath
    /\ current_soft = PriorSoft
    /\ nofile = NewSoft(Config, current_soft)
    /\ result = <<>>
    /\ engine = NoEngine
    /\ executed = <<>>

NextTasks ==
    \/ Submit
    \/ NextInput
    \/ \E w \in Workers : Execute(w)

SpecTasks == InitTasks /\ [][NextTasks]_vars

\* a command stopped on a line that is no record and returned the error
TaskReturnedErr == \E k \in 1..Len(executed) : executed[k] = "Err"

\* a command returned the error and wrote no run
ErrWritesNothing ==
    [][executed' # executed /\ executed'[Len(executed')] = "Err" => fs' = fs]_vars

\* C21: an error inside a sort task, a line that does not parse or a
\* failed I/O operation, is carried by the result of the task: every
\* command the pool has run returned, Ok or the error
C21_TaskResultCarriesError ==
    \A k \in 1..Len(executed) : executed[k] \in {"Ok", "Err"}

---------------------------------------------------------------------------
(* The merge engine on one input path *)

\* the merge engine returned from a call with exactly one input path
SingleInputMerged ==
    /\ Len(sort.input_files) = 1
    /\ pc \in {"rename", "returned", "done", "error"}

\* C25: the merge engine, given exactly one input path, deletes the input
\* only if the removal flag is set: after a call with the flag false, as
\* merge() makes it, the input file still exists
C25_SingleInputKept ==
    SingleInputMerged => (InPath(1) \in DOMAIN fs <=> ~call.remove_merged)

---------------------------------------------------------------------------
(* The output path *)

\* the records of all the inputs of the job that the filters let through
AllInputRecords ==
    LET recs[i \in 0..Len(sort.input_files)] ==
            IF i = 0 THEN <<>>
            ELSE recs[i - 1] \o
                 (IF sort.input_files[i] \in DOMAIN fs
                  THEN SelectSeq(ReadLines(fs[sort.input_files[i]]),
                                 LAMBDA line : ~Ignored(line, Config))
                  ELSE <<>>)
    IN  recs[Len(sort.input_files)]

\* the content is whole: the prefix lines, as many bytes as the records of
\* the inputs have, the suffix lines
WholeOutput(content) ==
    LET pre == Affix(Config.prefix, TRUE)
        suf == Affix(Config.suffix, TRUE)
        n   == Len(content)
    IN  /\ n = Len(pre) + Len(Concat(AllInputRecords)) + Len(suf)
        /\ SubSeq(content, 1, Len(pre)) = pre
        /\ SubSeq(content, n - Len(suf) + 1, n) = suf

\* the step writes the output path: the file appears or its content changes
OutputWritten ==
    /\ sort.output \in DOMAIN fs'
    /\ sort.output \notin DOMAIN fs \/ fs'[sort.output] # fs[sort.output]

\* the step is the rename of the temp file the final merge returned
RenameOfFinalMerge ==
    /\ pc = "rename" /\ pc' = "done"
    /\ merged \in DOMAIN fs /\ IsTmp(merged)
    /\ fs'[sort.output] = fs[merged]
    /\ WholeOutput(fs[merged])

\* C26: the output path is written by one step only, the rename of the
\* temp file of the final merge, taken after the final merge wrote every
\* record and suffix line and returned Ok; in every state before sort()
\* returned Ok, the failure states among them, the output path holds
\* nothing
C26_OutputByRename ==
    /\ [](pc # "done" => sort.output \notin DOMAIN fs)
    /\ [][OutputWritten => RenameOfFinalMerge]_vars

\* sort() returned Ok with records between prefix and suffix lines in the
\* output
C26_Witness ==
    /\ pc = "done" /\ call.op = "sort"
    /\ sort.suffix # <<>> /\ AllInputRecords # <<>>
    /\ OutPath \in DOMAIN fs /\ WholeOutput(fs[OutPath])

---------------------------------------------------------------------------
(* The loops of internal_merge, step by step.  engine holds the readers    *)
(* (head is the Option<LineRecord> of the reader, as <<>> or <<line>>,     *)
(* rest the lines its BufReader has not read, emitted the number of its    *)
(* lines written), the heap of readers, current_min and the lines written. *)

\* total number of bytes of the runs of a merge followed step by step
MaxRunLen == 6

\* the fields of the runs: the whole line as a String or as an Integer
RunFields == TaskFields

\* the line is a record under the configuration
Parses(line, cfg) == LineRecordNew(line, <<cfg.field>>, Tab).ok

\* UnmergedChunkFile::new on the lines of a file: the first line becomes
\* the head; an error when it is no record
UnmergedChunkFileNew(lines, cfg) ==
    IF lines = <<>> THEN Ok([head |-> <<>>, rest |-> <<>>, emitted |-> 0])
    ELSE IF Parses(lines[1], cfg)
    THEN Ok([head |-> <<lines[1]>>, rest |-> Tail(lines), emitted |-> 0])
    ELSE Err

\* UnmergedChunkFile::line_record: the next line is read and becomes the
\* head, None at the end of the file and None (by .ok()) when the line is
\* no record; the former head is returned
line_record(r, cfg) ==
    [ret    |-> r.head,
     reader |-> [r EXCEPT !.head = IF r.rest # <<>> /\ Parses(r.rest[1], cfg)
                                   THEN <<r.rest[1]>> ELSE <<>>,
                          !.rest = IF r.rest = <<>> THEN <<>> ELSE Tail(r.rest)]]

\* the heads of the readers, as ReaderCmp takes them
Heads == [i \in DOMAIN engine.readers |-> engine.readers[i].head]

\* the heap of readers is collected from the files: new(..).unwrap()
\* panics when the first line of a file is no record
MergeBuild ==
    /\ pc = "internal_merge"
    /\ engine.phase = "build"
    /\ LET files == sort.input_files
           news  == [i \in 1..Len(files) |-> UnmergedChunkFileNew(ReadLines(fs[files[i]]), Config)]
       IN  IF \E i \in 1..Len(files) : ~news[i].ok
           THEN /\ pc' = "panicked"
                /\ engine' = [engine EXCEPT !.phase = "panicked"]
           ELSE /\ pc' = pc
                /\ engine' = [engine EXCEPT !.phase = "outer",
                                            !.readers = [i \in 1..Len(files) |-> news[i].v],
                                            !.heap = 1..Len(files)]
    /\ fs' = Written(fs, {}, TmpPath(created + 1), <<>>)
    /\ merged' = TmpPath(created + 1)
    /\ created' = created + 1
    /\ UNCHANGED <<sort, call, executed, nofile, current_soft, result, it, queue, sorted_files, bdone, collected>>

\* an outer loop that pops any reader of the heap
MergePopAny ==
    /\ pc = "internal_merge"
    /\ engine.phase = "outer"
    /\ \E i \in engine.heap :
           engine' = [engine EXCEPT !.cur = i,
                                    !.heap = @ \ {i},
                                    !.phase = IF Cardinality(engine.heap) > 1
                                              THEN "inner" ELSE "drain"]
    /\ UNCHANGED <<sort, call, executed, nofile, current_soft, result, fs, pc, it, queue, sorted_files, bdone, collected, created, merged>>

\* while unmerged_files.len() > 1: current_min is popped; after the loop
\* the last reader is popped for the drain
MergePop ==
    /\ pc = "internal_merge"
    /\ engine.phase = "outer"
    /\ \E i \in MaxReaders(Heads, engine.heap, Config) :
           engine' = [engine EXCEPT !.cur = i,
                                    !.heap = @ \ {i},
                                    !.phase = IF Cardinality(engine.heap) > 1
                                              THEN "inner" ELSE "drain"]
    /\ UNCHANGED <<sort, call, executed, nofile, current_soft, result, fs, pc, it, queue, sorted_files, bdone, collected, created, merged>>

\* one turn of while &current_min >= unmerged_min: a record is written, or
\* current_min is done and its file removed under remove_merged; when the
\* condition fails current_min is pushed back
MergeInner ==
    /\ pc = "internal_merge"
    /\ engine.phase = "inner"
    /\ LET c    == engine.cur
           step == line_record(engine.readers[c], Config)
       IN  \E n \in MaxReaders(Heads, engine.heap, Config) :
           IF ReaderCmp(Heads[c], Heads[n], Config) = "Less"
           THEN /\ engine' = [engine EXCEPT !.heap = @ \cup {c}, !.cur = 0, !.phase = "outer"]
                /\ UNCHANGED <<fs, pc>>
           ELSE IF step.ret # <<>>
           THEN /\ engine' = [engine EXCEPT !.readers[c] = [step.reader EXCEPT !.emitted = @ + 1],
                                            !.out = Append(@, step.ret[1])]
                /\ UNCHANGED <<fs, pc>>
           ELSE /\ engine' = [engine EXCEPT !.readers[c] = step.reader,
                                            !.cur = 0, !.phase = "outer"]
                /\ fs' = IF call.remove_merged
                         THEN [q \in (DOMAIN fs) \ {sort.input_files[c]} |-> fs[q]]
                         ELSE fs
                /\ pc' = pc
    /\ UNCHANGED <<sort, call, executed, nofile, current_soft, result, it, queue, sorted_files, bdone, collected, created, merged>>

\* a final loop that removes the file of the last reader under
\* remove_merged only
MergeDrainFlagged ==
    /\ pc = "internal_merge"
    /\ engine.phase = "drain"
    /\ LET c    == engine.cur
           step == line_record(engine.readers[c], Config)
       IN  IF step.ret # <<>>
           THEN /\ engine' = [engine EXCEPT !.readers[c] = [step.reader EXCEPT !.emitted = @ + 1],
                                            !.out = Append(@, step.ret[1])]
                /\ UNCHANGED <<fs, pc>>
           ELSE /\ engine' = [engine EXCEPT !.readers[c] = step.reader, !.phase = "done"]
                /\ fs' = Written(fs, IF call.remove_merged THEN {sort.input_files[c]} ELSE {}, merged,
                                 Affix(Config.prefix, call.add_prefix_suffix)
                                     \o Concat(engine.out)
                                     \o Affix(Config.suffix, call.add_prefix_suffix))
                /\ pc' = "returned"
    /\ UNCHANGED <<sort, call, executed, nofile, current_soft, result, it, queue, sorted_files, bdone, collected, created, merged>>

\* one turn of the final loop over the last reader: a record is written,
\* or its file is removed, the merged file is complete and internal_merge
\* returns Ok
MergeDrain ==
    /\ pc = "internal_merge"
    /\ engine.phase = "drain"
    /\ LET c    == engine.cur
           step == line_record(engine.readers[c], Config)
       IN  IF step.ret # <<>>
           THEN /\ engine' = [engine EXCEPT !.readers[c] = [step.reader EXCEPT !.emitted = @ + 1],
                                            !.out = Append(@, step.ret[1])]
                /\ UNCHANGED <<fs, pc>>
           ELSE /\ engine' = [engine EXCEPT !.readers[c] = step.reader, !.phase = "done"]
                /\ fs' = Written(fs, {sort.input_files[c]}, merged,
                                 Affix(Config.prefix, call.add_prefix_suffix)
                                     \o Concat(engine.out)
                                     \o Affix(Config.suffix, call.add_prefix_suffix))
                /\ pc' = "returned"
    /\ UNCHANGED <<sort, call, executed, nofile, current_soft, result, it, queue, sorted_files, bdone, collected, created, merged>>

RECURSIVE Runs(_, _)
\* every list of k files of at most n bytes in all
Runs(k, n) ==
    IF k = 0 THEN {<<>>}
    ELSE UNION {{<<f>> \o t : t \in Runs(k - 1, n - Len(f))}
                : f \in UNION {[1..m -> TaskBytes] : m \in 0..n}}

\* the Sort values of the merges followed step by step: two files or
\* more, either order, the whole line as a String or an Integer key
EngineJobs ==
    {SortValue([i \in 1..k |-> InPath(i)], 1, DefaultFiles, DefaultChunkSize, o, TRUE,
               [ignore_empty |-> FALSE, ignore_lines |-> DefaultIgnoreLines], fd, NoAffix) :
        k \in 2..MaxShards, o \in {"Asc", "Desc"}, fd \in RunFields}

\* internal_merge is entered with two files or more, with either removal
\* flag, as merge() and as the sort tasks call it
InitEngine ==
    /\ sort \in EngineJobs
    /\ call \in [op : {"internal_merge"}, remove_merged : BOOLEAN, add_prefix_suffix : {FALSE}]
    /\ \E contents \in Runs(Len(sort.input_files), MaxRunLen) :
           /\ fs = [p \in {InPath(i) : i \in 1..Len(contents)} |-> contents[p[2]]]
           /\ engine = [phase   |-> "build",
                        runs    |-> [i \in 1..Len(contents) |-> ReadLines(contents[i])],
                        readers |-> <<>>,
                        heap    |-> {},
                        cur     |-> 0,
                        out     |-> <<>>]
    /\ pc = "internal_merge"
    /\ it = NoIterator
    /\ queue = <<>>
    /\ sorted_files = [w \in Workers |-> {}]
    /\ bdone = {}
    /\ collected = <<>>
    /\ created = 0
    /\ merged = NoPath
    /\ current_soft = PriorSoft
    /\ nofile = current_soft
    /\ result = <<>>
    /\ executed = <<>>

NextEngine ==
    \/ MergeBuild
    \/ MergePop
    \/ MergeInner
    \/ MergeDrain

SpecEngine == InitEngine /\ [][NextEngine]_vars

\* every line of every run is a record
RunsParse ==
    \A i \in DOMAIN engine.runs : \A k \in 1..Len(engine.runs[i]) :
        Parses(engine.runs[i][k], Config)

\* every input run is sorted in the configured order
RunsSorted ==
    /\ RunsParse
    /\ \A i \in DOMAIN engine.runs : \A k \in 1..(Len(engine.runs[i]) - 1) :
           RecordLe(engine.runs[i][k], engine.runs[i][k + 1], Config)

\* the step writes a record: the head of current_min
Emits == engine.phase \in {"inner", "drain"} /\ Len(engine'.out) = Len(engine.out) + 1

\* the step drops current_min: the reader goes neither back to the heap
\* nor on to another turn
Drops ==
    /\ engine.phase \in {"inner", "drain"}
    /\ engine'.phase \in {"outer", "done"}
    /\ engine.cur \notin engine'.heap

\* every line of the reader's run has been written
AllWritten(i) == engine.readers[i].emitted = Len(engine.runs[i])

\* with string keys and whole lines, the steps arrive at a result of the
\* loops taken as a whole
EngineAgrees ==
    engine.phase = "done" /\ Config.field = DefaultField =>
        Concat(engine.out) \in
            {r.out : r \in MergeHeap(engine.runs, DOMAIN engine.runs, Config)}

\* C27: provided every input run is sorted, a record the merge loop writes
\* is <= the head of every other reader that is not exhausted, in the
\* configured order, and is not below the record written before it: the
\* written sequence is non-decreasing
C27_MergeMinimality ==
    [][RunsSorted /\ Emits =>
          LET line == engine.readers[engine.cur].head[1] IN
          /\ \A j \in engine.heap :
                 Heads[j] # <<>> => RecordLe(line, Heads[j][1], Config)
          /\ engine.out # <<>> => RecordLe(engine.out[Len(engine.out)], line, Config)]_vars

\* sorted runs were merged: two records or more were written, records of
\* different readers among them, and the merge returned
C27_Witness ==
    /\ engine.phase = "done" /\ pc = "returned"
    /\ RunsSorted
    /\ Len(engine.out) >= 3
    /\ Cardinality({i \in DOMAIN engine.readers : engine.readers[i].emitted > 0}) >= 2
    /\ \E k \in 1..(Len(engine.out) - 1) :
           LineRecordCmp(engine.out[k], engine.out[k + 1], Config) = "Less"

\* an empty reader compares strictly greater than every reader with a head
EmptyReadersLast ==
    engine.phase \in {"outer", "inner", "drain", "done"} =>
        \A i, j \in DOMAIN engine.readers :
            Heads[i] = <<>> /\ Heads[j] # <<>> =>
                /\ ReaderCmp(Heads[i], Heads[j], Config) = "Greater"
                /\ ReaderCmp(Heads[j], Heads[i], Config) = "Less"

\* the drain has only the last reader left: every other reader is out of
\* the heap with every line of its run written
DrainIsLast ==
    engine.phase = "drain" =>
        /\ engine.heap = {}
        /\ \A j \in (DOMAIN engine.readers) \ {engine.cur} : AllWritten(j)

\* a reader is dropped only with every line of its run written
DropsExhausted == [][Drops => AllWritten(engine.cur)]_vars

\* the heap ordering as far as it holds: None compares above Some always,
\* the rest when every line of every run is a record
HeapOrderingOfRecords ==
    /\ []EmptyReadersLast
    /\ [](RunsParse => DrainIsLast)
    /\ [][RunsParse /\ Drops => AllWritten(engine.cur)]_vars

\* C28: empty readers sort strictly after all readers that hold a head,
\* the drain of the last reader is entered only when every other reader
\* has been exhausted and dropped, and no reader is dropped while lines of
\* its run are unread
C28_HeapOrdering ==
    /\ []EmptyReadersLast
    /\ []DrainIsLast
    /\ DropsExhausted

\* C29: when a line of a run after the first is no record, the merge does
\* not take the run for exhausted: it never returns Ok with lines of a run
\* missing from what it wrote
C29_MergeError ==
    pc = "returned" => \A i \in DOMAIN engine.readers : AllWritten(i)

\* the merge returned Ok, a run with an unwritten line deleted
RunLostAndDeleted ==
    /\ pc = "returned"
    /\ \E i \in DOMAIN engine.readers :
           ~AllWritten(i) /\ sort.input_files[i] \notin DOMAIN fs

---------------------------------------------------------------------------
(* The premerge of a sort task *)

\* the test of SortCommand::execute sends the task of worker w to the
\* premerge: its heap holds no fewer runs than floor(files / tasks)
PremergeTrigger(w) == Cardinality(sorted_files[w]) >= Config.files \div Config.tasks

\* C30: whenever the premerge trigger of a sort task fires, the heap of
\* the worker holds two runs or more, so that both pops succeed; the
\* number of intermediate files of the configuration is at least twice
\* its tasks, and tasks = 0 stands for the number of cores
C30_PremergePops ==
    /\ Config.tasks = (IF sort.tasks = 0 THEN NumCpus ELSE sort.tasks)
    /\ Config.files >= 2 * Config.tasks
    /\ \A w \in Workers : PremergeTrigger(w) => Cardinality(sorted_files[w]) >= 2

\* a sort task merged two runs of one line into a run of two, under a
\* configuration that asked for one intermediate file and the tasks of
\* the cores
C30_Witness ==
    /\ sort.tasks = 0 /\ sort.files = 1
    /\ \E w \in Workers :
           /\ PremergeTrigger(w)
           /\ \E f \in sorted_files[w] : f.lines >= 2

\* total number of bytes of the input of a job followed through its
\* premerges
MaxPremergeLen == 8

\* the Sort values of the jobs followed through their premerges: one task,
\* a heap of two runs or of three, chunks of one line and of two
PremergeJobs ==
    {SortValue(<<InPath(1)>>, 1, f, 1, "Asc", FALSE,
               [ignore_empty |-> FALSE, ignore_lines |-> DefaultIgnoreLines],
               DefaultField, NoAffix) : f \in {1, 3}}

InitPremerge ==
    /\ sort \in PremergeJobs
    /\ call = [op |-> "sort", remove_merged |-> TRUE, add_prefix_suffix |-> TRUE]
    /\ fs \in {[p \in {InPath(1)} |-> content] :
                  content \in UNION {[1..k -> {NL, 49}] : k \in 0..MaxPremergeLen}}
    /\ pc = "submit"
    /\ it = ChunkIteratorNew(sort.input_files[1], fs, Config.chunk_size_bytes)
    /\ queue = <<>>
    /\ sorted_files = [w \in Workers |-> {}]
    /\ bdone = {}
    /\ collected = <<>>
    /\ created = 0
    /\ merged = NoPath
    /\ current_soft = PriorSoft
    /\ nofile = NewSoft(Config, current_soft)
    /\ result = <<>>
    /\ engine = NoEngine
    /\ executed = <<>>

SpecPremerge == InitPremerge /\ [][NextTasks]_vars

\* the step is a sort task of worker w that premerged: two runs were
\* written, the merged one and the chunk
Premerges(w) ==
    /\ created' = created + 2
    /\ sorted_files'[w] # sorted_files[w]

\* the runs the two pops took from the heap of worker w, and those left
Popped(w) == {f \in sorted_files[w] : f.path \notin DOMAIN fs'}
LeftInHeap(w) == sorted_files[w] \ Popped(w)

\* C31: a premerge fuses the two runs of the worker's heap with the
\* smallest line counts: after the two pops no run left in the heap has
\* fewer lines than either popped run
C31_PremergeSmallest ==
    [][\A w \in Workers : Premerges(w) =>
          /\ Cardinality(Popped(w)) = 2
          /\ \A f \in Popped(w) : \A g \in LeftInHeap(w) : f.lines <= g.lines]_vars

\* after a premerge the heap of a worker holds three runs, the merged run
\* of three lines or more and a run of one line among them: the two
\* runs of fewest lines were popped and a run of more lines was left
C31_Witness ==
    \E w \in Workers :
        /\ Cardinality(sorted_files[w]) = 3
        /\ \E f \in sorted_files[w] : f.lines >= 3
        /\ \E f \in sorted_files[w] : f.lines = 1

---------------------------------------------------------------------------
(* The line counts of the runs *)

RECURSIVE SumLines(_)
\* the sum of the recorded line counts of a set of runs
SumLines(runs) ==
    IF runs = {} THEN 0
    ELSE LET f == CHOOSE f \in runs : TRUE IN f.lines + SumLines(runs \ {f})

\* the records of the chunks whose sort tasks have completed: the tasks
\* run in the order of the queue, so these are the chunks before the head
\* of the queue, or all the chunks yielded when the queue is empty
CompletedRecords ==
    LET done == IF queue # <<>> THEN Head(queue).offset ELSE it.pos IN
    ReadRecords([path |-> InPath(1), offset |-> 0, length |-> done], fs, Config)

\* the sort tasks and the broadcast merges: the heaps hold the runs
HeapsHoldRuns ==
    call.op = "sort" /\ pc \in {"submit", "merge_sorted_files"}

\* the sum of the recorded line counts over the heaps is the number of
\* records of the completed chunks, and every run has as many lines in
\* its file as recorded
LineCounts ==
    /\ SumLines(LiveRuns) = Len(CompletedRecords)
    /\ \A f \in LiveRuns : f.lines = Len(ReadLines(fs[f.path]))

\* the line counts as far as they hold: for an input whose last line is
\* terminated
LineCountsOfTerminated ==
    HeapsHoldRuns /\ AllTerminated(fs[InPath(1)]) => LineCounts

\* C32: in every state of the sort tasks and the broadcast merges the
\* recorded line counts of the runs in the heaps sum to the number of
\* records of the completed chunks, and the recorded line count of each
\* run is the number of lines in its file; premerges and broadcast
\* merges leave the sum unchanged
C32_LineCountConservation == HeapsHoldRuns => LineCounts

---------------------------------------------------------------------------
(* The run files *)

\* sort() has not yet handed the collected runs to the final merge
BeforeFinalMerge ==
    pc \in {"submit", "merge_sorted_files", "collect_sorted_files", "final_merge"}

\* the paths of the runs in the heaps of the workers, and those in the
\* collected vector until the final merge takes it
HeapPaths(w) == {f.path : f \in sorted_files[w]}
CollectedPaths == IF BeforeFinalMerge THEN {collected[i] : i \in 1..Len(collected)} ELSE {}
HeldPaths == UNION {HeapPaths(w) : w \in Workers} \cup CollectedPaths

\* every path held names a file, and none is held twice
HeldOnce ==
    /\ HeldPaths \subseteq DOMAIN fs
    /\ \A w \in Workers : Cardinality(HeapPaths(w)) = Cardinality(sorted_files[w])
    /\ \A v, w \in Workers : v # w => HeapPaths(v) \cap HeapPaths(w) = {}
    /\ \A w \in Workers : HeapPaths(w) \cap CollectedPaths = {}
    /\ BeforeFinalMerge => Cardinality(CollectedPaths) = Len(collected)

\* a run that a step takes out of the heaps and the collected vector went
\* into a merge, which deleted its file
ConsumedIsDeleted == \A p \in HeldPaths : p \notin HeldPaths' => p \notin DOMAIN fs'

\* a temp file that a step deletes is a run that was held, or the merged
\* file the rename moves to the output
DeletedWasHeld ==
    \A p \in DOMAIN fs : IsTmp(p) /\ p \notin DOMAIN fs' => p \in HeldPaths \/ p = merged

\* a temp file that a step creates has a name no file had before
CreatedOnce ==
    \A p \in (DOMAIN fs') \ (DOMAIN fs) : IsTmp(p) => p[2] > created /\ p[2] <= created'

\* C33: each sorted run file is created once, is an input to one merge
\* and is deleted by that merge; in every state every path held in a
\* worker's heap or in the collected vector names an existing file and
\* no path is held in two places
C33_RunLifecycle ==
    /\ []HeldOnce
    /\ [][ConsumedIsDeleted /\ DeletedWasHeld /\ CreatedOnce]_vars

\* the final merge is about to take two collected runs or more, after
\* other runs were consumed by premerges or broadcast merges
C33_Witness ==
    /\ pc = "final_merge"
    /\ Len(collected) >= 2
    /\ created >= Len(collected) + 2

---------------------------------------------------------------------------
(* Collection and the broadcast merge *)

\* the step is a sort task of worker w pushing a run into its heap
PushesRun(w) == queue # <<>> /\ queue' = Tail(queue) /\ sorted_files'[w] # sorted_files[w]

\* the step is the closure of collect_sorted_files on a worker
CollectionStep == pc = "collect_sorted_files" /\ (bdone' # bdone \/ pc' = "final_merge")

\* worker w has run its closure of collect_sorted_files
Collected(w) == pc = "final_merge" \/ (pc = "collect_sorted_files" /\ w \in bdone)

BroadcastMerged(w) ==
    \/ pc = "merge_sorted_files" /\ w \in bdone
    \/ pc \in {"collect_sorted_files", "final_merge"}

\* the step is a sort task or the closure of collect_sorted_files
TaskOrCollection == (queue # <<>> /\ queue' = Tail(queue)) \/ CollectionStep

\* C35: with concurrent_merge enabled, after the broadcast merge the heap
\* of every worker holds at most one run, the broadcast merge of a worker
\* precedes its collection, and the final merge receives at most tasks
\* runs; with concurrent_merge disabled there is no broadcast merge and
\* the heaps reach collection as the sort tasks left them
C35_BroadcastMerge ==
    /\ [](Config.concurrent_merge =>
             /\ \A w \in Workers : BroadcastMerged(w) => Cardinality(sorted_files[w]) <= 1
             /\ pc = "final_merge" => Len(collected) <= Config.tasks)
    /\ [][(Config.concurrent_merge /\ pc' = "collect_sorted_files" /\ pc # pc') =>
             (pc = "merge_sorted_files" /\ Cardinality(bdone) = Config.tasks - 1)]_vars
    /\ [][(pc = "collect_sorted_files" \/ pc = "final_merge") => (pc' # "merge_sorted_files")]_vars
    /\ [](~Config.concurrent_merge => pc # "merge_sorted_files")
    /\ [][(~Config.concurrent_merge /\ BeforeFinalMerge /\ sorted_files' # sorted_files) =>
             TaskOrCollection]_vars

\* with concurrent_merge enabled the final merge is about to take one run
\* of each of two workers, one of them merged from the runs of its heap
C35_Witness ==
    /\ Config.concurrent_merge
    /\ pc = "final_merge"
    /\ Config.tasks = 2 /\ Len(collected) = 2
    /\ created >= 4

\* ---------------------------------------------------------------------
\* Inputs that yield no chunk
\* ---------------------------------------------------------------------

\* the job has inputs, every input file exists and is empty, and the
\* directories of the temporary files and of the output exist
EveryInputEmpty ==
    /\ call.op = "sort"
    /\ sort.input_files # <<>>
    /\ \A i \in 1..Len(sort.input_files) :
           sort.input_files[i] \in DOMAIN fs /\ fs[sort.input_files[i]] = <<>>
    /\ DirExists(Config.tmp)
    /\ DirExists(sort.output)

\* C36: sorting inputs that yield no chunk (every input file is empty)
\* completes successfully: sort() does not panic, the final merge never
\* pops from an empty heap of readers, and when sort() has returned the
\* output file exists and holds the prefix lines followed by the suffix
\* lines
C36_EmptyInputsSucceed ==
    EveryInputEmpty =>
        /\ pc # "panicked"
        /\ pc = "final_merge" => ~MergePanics(collected)
        /\ pc \in {"done", "error"} =>
               /\ pc = "done"
               /\ sort.output \in DOMAIN fs
               /\ fs[sort.output] = Affix(Config.prefix, TRUE) \o Affix(Config.suffix, TRUE)

\* ---------------------------------------------------------------------
\* Termination
\* ---------------------------------------------------------------------

\* total number of bytes of the inputs of the jobs followed under fair
\* scheduling
MaxFairLen == 3

\* files of at most n bytes in all, as a list of k contents
RECURSIVE FairRuns(_, _)
FairRuns(k, n) ==
    IF k = 0 THEN {<<>>}
    ELSE UNION {{<<f>> \o t : t \in FairRuns(k - 1, n - Len(f))}
                : f \in UNION {[1..m -> {NL, 49}] : m \in 0..n}}

\* the Sort values of the sorts followed under fair scheduling: one worker
\* or two, with and without the concurrent merge, chunks of one line
FairSortJobs ==
    {SortValue(<<InPath(1)>>, t, DefaultFiles, 1, "Asc", cm,
               [ignore_empty |-> FALSE, ignore_lines |-> DefaultIgnoreLines],
               DefaultField, NoAffix) : t \in TaskChoices, cm \in BOOLEAN}

\* sort() has built its pool and opened its input
InitFairSort ==
    /\ sort \in FairSortJobs
    /\ call = [op |-> "sort", remove_merged |-> TRUE, add_prefix_suffix |-> TRUE]
    /\ \E contents \in FairRuns(1, MaxFairLen) : fs = [p \in {InPath(1)} |-> contents[1]]
    /\ pc = "submit"
    /\ it = ChunkIteratorNew(sort.input_files[1], fs, Config.chunk_size_bytes)
    /\ nofile = NewSoft(Config, current_soft)
    /\ engine = NoEngine

\* internal_merge is entered with two files, step by step
InitFairMerge ==
    /\ sort = SortValue(<<InPath(1), InPath(2)>>, 1, DefaultFiles, DefaultChunkSize, "Asc", TRUE,
                        [ignore_empty |-> FALSE, ignore_lines |-> DefaultIgnoreLines],
                        DefaultField, NoAffix)
    /\ call \in [op : {"internal_merge"}, remove_merged : BOOLEAN, add_prefix_suffix : {FALSE}]
    /\ \E contents \in FairRuns(2, MaxFairLen) :
           /\ fs = [p \in {InPath(1), InPath(2)} |-> contents[p[2]]]
           /\ engine = [phase   |-> "build",
                        runs    |-> [i \in 1..2 |-> ReadLines(contents[i])],
                        readers |-> <<>>,
                        heap    |-> {},
                        cur     |-> 0,
                        out     |-> <<>>]
    /\ pc = "internal_merge"
    /\ it = NoIterator
    /\ nofile = current_soft

InitFair ==
    /\ current_soft = PriorSoft
    /\ InitFairSort \/ InitFairMerge
    /\ queue = <<>>
    /\ sorted_files = [w \in Workers |-> {}]
    /\ bdone = {}
    /\ collected = <<>>
    /\ created = 0
    /\ merged = NoPath
    /\ result = <<>>
    /\ executed = <<>>

NextFair ==
    \/ Next
    \/ NextEngine

\* the main thread and every worker of the pool take their next step when
\* they have one
SpecFair == InitFair /\ [][NextFair]_vars /\ WF_vars(NextFair)

\* control has left sort(), or internal_merge
Terminated == pc \in {"done", "error", "panicked", "returned"}

\* the condition of while &current_min >= unmerged_min, for current_min c
LoopCondition(heads, heap, c) ==
    \A n \in MaxReaders(heads, heap, Config) : ReaderCmp(heads[c], heads[n], Config) # "Less"

\* current_min was popped for an iteration of the outer loop
OuterIterationStarts == engine.phase = "outer" /\ engine'.phase = "inner"

\* a turn of the inner loop whose condition holds
InnerTurn ==
    /\ engine.phase = "inner" /\ engine' # engine
    /\ LoopCondition(Heads, engine.heap, engine.cur)

MaxFieldLen == 3

\* the field texts: a digit, a letter and a blank
FieldTexts == UNION {[1..k -> {49, 97, 32}] : k \in 0..MaxFieldLen}

\* the values rand::random may return: two i64 (or whole f64) values, and
\* for a String key two encodings of 16 random bytes, cut to one hex digit
RandomNumbers == {0, 1}
RandomStrings == {<<48>>, <<102>>}

\* Key::new with the value rand::random() returns when it is called: the
\* field text of an Integer or Number field is parsed first, and the `?`
\* returns its error before random() is consulted
KeyNewRandom(field, field_def, rs, rn) ==
    LET key == KeyNewResult(field, field_def) IN
    IF ~field_def.random THEN key
    ELSE IF field_def.field_type = "String" THEN Ok(StringKey(rs))
    ELSE IF ~key.ok THEN Err
    ELSE IF field_def.field_type = "Integer" THEN Ok(IntegerKey(rn))
    ELSE Ok(NumberKey(Num(rn)))

\* Key::new is called on the field text of the call
KeyNewCall ==
    /\ pc = "key_new"
    /\ \E rs \in RandomStrings : \E rn \in RandomNumbers :
           result' = <<KeyNewRandom(call.field, call.field_def, rs, rn)>>
    /\ pc' = "done"
    /\ UNCHANGED <<sort, call, engine, executed, nofile, current_soft, fs, it, queue, sorted_files, bdone,
                   collected, created, merged>>

\* a key is about to be built from a field text, for a field of any type
\* with or without random
InitRandom ==
    /\ sort = SortValue(<<>>, 1, DefaultFiles, DefaultChunkSize, "Asc", TRUE,
                        [ignore_empty |-> FALSE, ignore_lines |-> DefaultIgnoreLines],
                        DefaultField, NoAffix)
    /\ call \in [op : {"key_new"}, field : FieldTexts,
                  field_def : [index : {0}, field_type : {"String", "Integer", "Number"},
                               ignore_case : {FALSE}, random : BOOLEAN]]
    /\ fs = <<>>
    /\ pc = "key_new"
    /\ it = NoIterator
    /\ queue = <<>>
    /\ sorted_files = [w \in Workers |-> {}]
    /\ bdone = {}
    /\ collected = <<>>
    /\ created = 0
    /\ merged = NoPath
    /\ current_soft = PriorSoft
    /\ nofile = current_soft
    /\ result = <<>>
    /\ engine = NoEngine
    /\ executed = <<>>

NextRandom == KeyNewCall

SpecRandom == InitRandom /\ [][NextRandom]_vars

\* Key::new returned for a field with random set
RandomKeyBuilt == call.op = "key_new" /\ result # <<>> /\ call.field_def.random

\* C38: with random set on a field, key construction succeeds whatever the
\* field text is, for Integer and Number fields as for String fields, and
\* the key is a value of the type of the field
C38_RandomKey ==
    RandomKeyBuilt =>
        /\ result[1].ok
        /\ result[1].v.t = call.field_def.field_type

\* ---------------------------------------------------------------------
\* The types of the keys compared
\* ---------------------------------------------------------------------

\* the key vector has one key per field descriptor, each of the type of
\* its descriptor
TypedAs(keys, fields) ==
    /\ Len(keys) = Len(fields)
    /\ \A k \in 1..Len(keys) : keys[k].t = fields[k].field_type

\* Key::cmp and Key::eq abort on the pair: as_str(), as_integer() or
\* as_number() of the other key is None and is unwrapped
CrossTyped(a, b) == a.t # b.t

\* C39: the records compared within one job are built from the same
\* field descriptors, so their key vectors have the same arity and the
\* same key type at every position, and no comparison meets two keys of
\* different types
C39_SameTypedKeys ==
    RecordsCompared =>
        LET a == result[1].a.keys
            b == result[1].b.keys
        IN  /\ TypedAs(a, call.fields)
            /\ TypedAs(b, call.fields)
            /\ Len(a) = Len(b)
            /\ \A k \in 1..Len(a) : ~CrossTyped(a[k], b[k])

\* two records of two keys each, an Integer and a String, were compared
C39_Witness ==
    /\ RecordsCompared
    /\ Len(call.fields) = 2
    /\ call.fields[1].field_type = "Integer" /\ call.fields[2].field_type = "String"
    /\ call.a # call.b
    /\ Len(result[1].a.keys) = 2
    /\ result[1].cmp # "Equal"

\* ---------------------------------------------------------------------
\* The files a merge without removal deletes
\* ---------------------------------------------------------------------

\* the file current_min reads
CurrentPath == sort.input_files[engine.cur]

\* the inner loop found current_min exhausted while the heap holds readers
DropsInOuterLoop == Drops /\ engine.phase = "inner"

\* the final loop found the last reader exhausted
DropsLast == engine.phase = "drain" /\ engine'.phase = "done"

\* the input files of the merge that are gone
InputsRemoved == {i \in 1..Len(sort.input_files) : sort.input_files[i] \notin DOMAIN fs}

\* C40: in a merge of two inputs or more with the removal flag false, the
\* file of a reader found exhausted while other readers remain is left in
\* place, and the file of the last remaining reader is deleted once it is
\* drained, whatever the removal flag: such a merge returns with exactly
\* that one input gone
C40_LastInputRemoved ==
    /\ [][(DropsInOuterLoop /\ ~call.remove_merged) =>
              (CurrentPath \in DOMAIN fs' /\ fs'[CurrentPath] = fs[CurrentPath])]_vars
    /\ [][DropsLast => (CurrentPath \in DOMAIN fs /\ CurrentPath \notin DOMAIN fs')]_vars
    /\ []((pc = "returned" /\ ~call.remove_merged) => InputsRemoved = {engine.cur})

\* a merge of two files of records without removal returned: the reader
\* dropped in the outer loop left its file in place, the file of the other
\* is gone
C40_Witness ==
    /\ pc = "returned" /\ ~call.remove_merged
    /\ \A i \in DOMAIN engine.runs : engine.runs[i] # <<>>
    /\ \E i \in DOMAIN engine.runs :
           /\ InputsRemoved = {i}
           /\ \A j \in DOMAIN engine.runs \ {i} : fs[sort.input_files[j]] # <<>>
    /\ Len(engine.out) >= 2
====
